---- MODULE Spec2Model ----
(***************************************************************************)
(* perf-focus: the stack-trace matcher (src/matcher).                      *)
(*                                                                         *)
(* A matcher is a tree of combinators.  match_trace tries a matcher at the *)
(* front of a stack (a sequence of frames, bottom of stack first) and      *)
(* yields the remaining suffix or one of two errors; search_trace_while    *)
(* slides the matcher up the stack.  Every call of match_trace is logged   *)
(* in call order (the matcher node and the length of the stack it was      *)
(* called on), so that "is / is not evaluated" is part of the result.      *)
(***************************************************************************)
EXTENDS Integers, Sequences, FiniteSets, TLC

VARIABLES matcher, ops, pc, sample, result

\* the three aggregators of main, what the checks remember of the calls made
\* (ghost), and the last call with its arguments (last)
VARIABLES hist, graph, tree, ghost, last

\* the locals of each_trace with the counters of main that its callback
\* updates, and the leaf table of src/flat.rs
VARIABLES each_trace, flat

aggvars == <<hist, graph, tree, ghost, last, each_trace, flat>>

vars ==
    <<matcher, ops, pc, sample, result, hist, graph, tree, ghost, last,
      each_trace, flat>>

(***************************************************************************)
(* Bounds.                                                                 *)
(***************************************************************************)
\* longest stack handed to a matcher
MaxLen == 3
\* most constructor calls used to build the matcher on top of an atom
MaxOps == 2
\* longest stack handed to the matcher of a parsed query
MaxQueryLen == 4
\* longest frame sequence handed to the histogram, and most calls
MaxHistLen == 3
MaxHistCalls == 3
\* call graph: most frames and calls together (each call counts as its
\* frames plus one), largest top_n, and the samples that did not match
MaxGraphWork == 6
MaxTopN == 2
ManyMisses == 200
\* prefix tree: most frames and calls together (each call counts as its
\* frames plus one), most sort, rollup and only_leaves calls, the largest
\* finite max_depth and the min_percent that rollup is given
MaxTreeWork == 6
MaxTreeOps == 2
MaxDepthArg == 1
SomePercent == 50
\* most pieces of a typed query
MaxPieces == 4
\* percent: the largest num and denom
MaxNum == 12
MaxDenom == 9
\* most lines of the input of each_trace
MaxLines == 4
\* leaf table: most frames and calls together (each call counts as its
\* frames plus one)
MaxFlatWork == 6
\* the largest integer of the checker; it stands for usize::MAX and
\* u32::MAX, which the program uses only as largest values
IntMax == 2147483647

(***************************************************************************)
(* Frames and regular expressions.  A frame is a string, here a sequence   *)
(* of characters; the regular expressions are literals, and                *)
(* Regex::is_match is an unanchored search: the literal occurs somewhere   *)
(* in the frame.                                                           *)
(***************************************************************************)
Frames == {<<"a">>, <<"b">>, <<"x">>}

Patterns == {<<"a">>, <<"b">>}

is_match(text, frame) ==
    \E i \in 1..(Len(frame) - Len(text) + 1) :
        SubSeq(frame, i, i + Len(text) - 1) = text

RECURSIVE StacksOfLen(_)
StacksOfLen(n) ==
    IF n = 0 THEN {<<>>}
    ELSE {<<f>> \o t : f \in Frames, t \in StacksOfLen(n - 1)}

Stacks == UNION {StacksOfLen(n) : n \in 0..MaxLen}

QueryStacks == UNION {StacksOfLen(n) : n \in 0..MaxQueryLen}

\* s[n..] of the source: the stack without its first n frames
DropFrames(s, n) == SubSeq(s, n + 1, Len(s))

(***************************************************************************)
(* Matcher constructors.                                                   *)
(***************************************************************************)
RegexMatcher(r) == [tag |-> "Regex", text |-> r]

WildcardMatcher == [tag |-> "Wildcard"]

EmptyMatcher == [tag |-> "Empty"]

empty_matcher == EmptyMatcher

ParenMatcher(other) == [tag |-> "Paren", matcher |-> other]

NotMatcher(other) == [tag |-> "Not", matcher |-> other]

ThenMatcher(left, right) == [tag |-> "Then", left |-> left, right |-> right]

SkipMatcher_with_condition(needle, condition) ==
    [tag |-> "Skip", needle |-> needle, condition |-> condition]

SkipMatcher(needle) == SkipMatcher_with_condition(needle, empty_matcher)

OrMatcher(left, right) == [tag |-> "Or", left |-> left, right |-> right]

(***************************************************************************)
(* Results.  A MatchResult is Ok(suffix) or Err(kind); evals is the log of *)
(* the match_trace calls made to compute it.                               *)
(***************************************************************************)
RecoverableError == "RecoverableError"

IrrecoverableError == "IrrecoverableError"

Ok(suffix, evals) == [kind |-> "Ok", suffix |-> suffix, evals |-> evals]

Err(e, evals) == [kind |-> e, suffix |-> <<>>, evals |-> evals]

is_err(r) == r.kind # "Ok"

Call(self, s) == <<[node |-> self, len |-> Len(s)]>>

None(evals) ==
    [found |-> FALSE, first_matching_frame |-> 0, first_callee_frame |-> 0,
     evals |-> evals]

Some(first_matching_frame, first_callee_frame, evals) ==
    [found |-> TRUE, first_matching_frame |-> first_matching_frame,
     first_callee_frame |-> first_callee_frame, evals |-> evals]

RECURSIVE match_trace(_, _)
RECURSIVE search_loop(_, _, _, _, _, _)

\* variant: first_callee_frame measured against the remaining stack
search_loop_relative(self, input, condition, stack, dropped, evals) ==
    IF stack = <<>> THEN None(evals)
    ELSE LET r == match_trace(self, stack)
             e1 == evals \o r.evals
         IN  CASE r.kind = "Ok" ->
                    Some(dropped, Len(stack) - Len(r.suffix), e1)
               [] r.kind = RecoverableError ->
                    LET c == match_trace(condition, stack)
                        e2 == e1 \o c.evals
                    IN  IF is_err(c) THEN None(e2)
                        ELSE search_loop(self, input, condition,
                                         Tail(stack), dropped + 1, e2)
               [] r.kind = IrrecoverableError -> None(e1)

\* variant: an IrrecoverableError slides on like a RecoverableError
search_loop_uncut(self, input, condition, stack, dropped, evals) ==
    IF stack = <<>> THEN None(evals)
    ELSE LET r == match_trace(self, stack)
             e1 == evals \o r.evals
         IN  IF r.kind = "Ok"
             THEN Some(dropped, Len(input) - Len(r.suffix), e1)
             ELSE LET c == match_trace(condition, stack)
                      e2 == e1 \o c.evals
                  IN  IF is_err(c) THEN None(e2)
                      ELSE search_loop(self, input, condition,
                                       Tail(stack), dropped + 1, e2)

\* variant: the matcher is tried once more when the stack is empty
search_loop_to_the_end(self, input, condition, stack, dropped, evals) ==
    LET r == match_trace(self, stack)
        e1 == evals \o r.evals
    IN  CASE r.kind = "Ok" ->
               Some(dropped, Len(input) - Len(r.suffix), e1)
          [] r.kind = RecoverableError ->
               LET c == match_trace(condition, stack)
                   e2 == e1 \o c.evals
               IN  IF is_err(c) \/ stack = <<>> THEN None(e2)
                   ELSE search_loop(self, input, condition,
                                    Tail(stack), dropped + 1, e2)
          [] r.kind = IrrecoverableError -> None(e1)

\* variant: frames are dropped without testing the condition
search_loop_unconditional(self, input, condition, stack, dropped, evals) ==
    IF stack = <<>> THEN None(evals)
    ELSE LET r == match_trace(self, stack)
             e1 == evals \o r.evals
         IN  CASE r.kind = "Ok" ->
                    Some(dropped, Len(input) - Len(r.suffix), e1)
               [] r.kind = RecoverableError ->
                    search_loop(self, input, condition,
                                Tail(stack), dropped + 1, e1)
               [] r.kind = IrrecoverableError -> None(e1)

(***************************************************************************)
(* Matcher::search_trace_while: the loop, with its locals stack and        *)
(* dropped and the log so far.                                             *)
(***************************************************************************)
search_loop(self, input, condition, stack, dropped, evals) ==
    IF stack = <<>> THEN None(evals)
    ELSE LET r == match_trace(self, stack)
             e1 == evals \o r.evals
         IN  CASE r.kind = "Ok" ->
                    Some(dropped, Len(input) - Len(r.suffix), e1)
               [] r.kind = RecoverableError ->
                    LET c == match_trace(condition, stack)
                        e2 == e1 \o c.evals
                    IN  IF is_err(c) THEN None(e2)
                        ELSE search_loop(self, input, condition,
                                         Tail(stack), dropped + 1, e2)
               [] r.kind = IrrecoverableError -> None(e1)

search_trace_while(self, input, condition) ==
    search_loop(self, input, condition, input, 0, <<>>)

search_trace(self, input) == search_trace_while(self, input, empty_matcher)

(***************************************************************************)
(* MatcherTrait::match_trace, one operator per implementation.             *)
(***************************************************************************)
RegexMatcher_match_trace(self, s) ==
    IF s # <<>> /\ is_match(self.text, s[1])
    THEN Ok(Tail(s), Call(self, s))
    ELSE Err(RecoverableError, Call(self, s))

WildcardMatcher_match_trace(self, s) ==
    IF s # <<>> THEN Ok(Tail(s), Call(self, s))
    ELSE Err(RecoverableError, Call(self, s))

\* variant: consumes a frame, as the wildcard does
EmptyMatcher_match_trace_consume(self, s) ==
    IF s # <<>> THEN Ok(Tail(s), Call(self, s))
    ELSE Err(RecoverableError, Call(self, s))

EmptyMatcher_match_trace(self, s) == Ok(s, Call(self, s))

ParenMatcher_match_trace(self, s) ==
    LET r == match_trace(self.matcher, s)
    IN  [r EXCEPT !.evals = Call(self, s) \o @]

\* variant: only a RecoverableError of the inner matcher counts as "no match"
NotMatcher_match_trace_propagate(self, s) ==
    LET r == match_trace(self.matcher, s)
    IN  CASE r.kind = "Ok" ->
               Err(RecoverableError, Call(self, s) \o r.evals)
          [] r.kind = RecoverableError -> Ok(s, Call(self, s) \o r.evals)
          [] r.kind = IrrecoverableError ->
               Err(IrrecoverableError, Call(self, s) \o r.evals)

NotMatcher_match_trace(self, s) ==
    LET r == match_trace(self.matcher, s)
    IN  IF r.kind = "Ok"
        THEN Err(RecoverableError, Call(self, s) \o r.evals)
        ELSE Ok(s, Call(self, s) \o r.evals)

\* variant: every failure is reported as a RecoverableError
ThenMatcher_match_trace_recoverable(self, s) ==
    LET t == match_trace(self.left, s)
    IN  IF is_err(t) THEN Err(RecoverableError, Call(self, s) \o t.evals)
        ELSE LET u == match_trace(self.right, t.suffix)
             IN  IF is_err(u)
                 THEN Err(RecoverableError,
                          Call(self, s) \o t.evals \o u.evals)
                 ELSE Ok(u.suffix, Call(self, s) \o t.evals \o u.evals)

\* variant: right is tried on s, not on what left returned
ThenMatcher_match_trace_same_stack(self, s) ==
    LET t == match_trace(self.left, s)
    IN  IF is_err(t) THEN Err(t.kind, Call(self, s) \o t.evals)
        ELSE LET u == match_trace(self.right, s)
             IN  IF is_err(u)
                 THEN Err(u.kind, Call(self, s) \o t.evals \o u.evals)
                 ELSE Ok(u.suffix, Call(self, s) \o t.evals \o u.evals)

ThenMatcher_match_trace(self, s) ==
    LET t == match_trace(self.left, s)
    IN  IF is_err(t) THEN Err(t.kind, Call(self, s) \o t.evals)
        ELSE LET u == match_trace(self.right, t.suffix)
             IN  IF is_err(u)
                 THEN Err(u.kind, Call(self, s) \o t.evals \o u.evals)
                 ELSE Ok(u.suffix, Call(self, s) \o t.evals \o u.evals)

\* variant: the suffix starts at the needle instead of after it
SkipMatcher_match_trace_keep_needle(self, s) ==
    LET r == search_trace_while(self.needle, s, self.condition)
    IN  IF r.found
        THEN Ok(DropFrames(s, r.first_matching_frame), Call(self, s) \o r.evals)
        ELSE Err(IrrecoverableError, Call(self, s) \o r.evals)

SkipMatcher_match_trace(self, s) ==
    LET r == search_trace_while(self.needle, s, self.condition)
    IN  IF r.found
        THEN Ok(DropFrames(s, r.first_callee_frame), Call(self, s) \o r.evals)
        ELSE Err(IrrecoverableError, Call(self, s) \o r.evals)

OrMatcher_match_trace(self, s) ==
    LET l == match_trace(self.left, s)
    IN  IF is_err(l)
        THEN LET r == match_trace(self.right, s)
             IN  [r EXCEPT !.evals = Call(self, s) \o l.evals \o @]
        ELSE Ok(l.suffix, Call(self, s) \o l.evals)

match_trace(self, s) ==
    CASE self.tag = "Regex" -> RegexMatcher_match_trace(self, s)
      [] self.tag = "Wildcard" -> WildcardMatcher_match_trace(self, s)
      [] self.tag = "Empty" -> EmptyMatcher_match_trace(self, s)
      [] self.tag = "Paren" -> ParenMatcher_match_trace(self, s)
      [] self.tag = "Not" -> NotMatcher_match_trace(self, s)
      [] self.tag = "Then" -> ThenMatcher_match_trace(self, s)
      [] self.tag = "Skip" -> SkipMatcher_match_trace(self, s)
      [] self.tag = "Or" -> OrMatcher_match_trace(self, s)

(***************************************************************************)
(* The parser's productions (src/matcher/parser.rs): the matcher each      *)
(* production builds from the matchers of its parts.                       *)
(***************************************************************************)
MATCHER_COMMA_MATCHER(lhs, rhs) == ThenMatcher(lhs, rhs)

MATCHER_THEN_NOT_MATCHER(lhs, rhs) ==
    ThenMatcher(lhs, NotMatcher(SkipMatcher(rhs)))

MATCHER_SKIP_MATCHER(lhs, rhs) == ThenMatcher(lhs, SkipMatcher(rhs))

MATCHER_NOT_THEN_MATCHER(lhs, rhs) ==
    SkipMatcher_with_condition(rhs, NotMatcher(lhs))

MATCHER_SKIP(rhs) == SkipMatcher(rhs)

MATCHER_ANY == WildcardMatcher

MATCHER_RE(regex_str) == RegexMatcher(regex_str)

\* the one-frame atoms of a query: {regex} and .
FrameAtoms == {MATCHER_RE(p) : p \in Patterns} \cup {MATCHER_ANY}

\* MATCHER0 without nesting: a one-frame atom, or .. before one
MATCHER0 == FrameAtoms \cup {MATCHER_SKIP(a) : a \in FrameAtoms}

(***************************************************************************)
(* The state machine.  Under Spec a matcher is built bottom-up from an     *)
(* atom by the constructors, as the tests do; under SpecQuery it is built  *)
(* by one production of the parser, as main does.  Then match_trace or     *)
(* search_trace is run on a stack.                                         *)
(***************************************************************************)
Atoms == {RegexMatcher(p) : p \in Patterns} \cup {WildcardMatcher, EmptyMatcher}

\* the matcher a two-argument constructor combines the current one with
Operands == {RegexMatcher(p) : p \in Patterns}

NoResult == [kind |-> "none"]

(***************************************************************************)
(* The aggregators as main creates them: Histogram::new, CallGraph::new    *)
(* and Tree::new.  A HashMap is a function on the set of its keys.         *)
(***************************************************************************)
EmptyMap == <<>>

Histogram_new == [fns |-> EmptyMap]

CallGraph_new ==
    [nodes |-> EmptyMap, edges |-> EmptyMap, node_counts |-> <<>>,
     frames |-> <<>>, total |-> 0]

TreeNode_new(label) ==
    [label |-> label, hits_total |-> 0, hits_self |-> 0, children |-> <<>>]

Tree_new == [root_node |-> TreeNode_new("<root>")]

\* Flat::new
Flat_new ==
    [histogram |-> Histogram_new, leaves |-> EmptyMap, empty_traces |-> 0]

\* each_trace before its first line: the next line to read, the frames
\* vector, the calls of the callback made so far, and main's two counters
NoTraces ==
    [next |-> 1, frames |-> <<>>, calls |-> <<>>, matches |-> 0,
     not_matches |-> 0]

NoCall == [op |-> "none"]

NoGhost == [calls |-> 0]

NewAggregators ==
    /\ hist = Histogram_new
    /\ graph = CallGraph_new
    /\ tree = Tree_new
    /\ ghost = NoGhost
    /\ last = NoCall
    /\ each_trace = NoTraces
    /\ flat = Flat_new

Init ==
    /\ matcher \in Atoms
    /\ ops = 0
    /\ pc = "build"
    /\ sample = <<>>
    /\ result = NoResult
    /\ NewAggregators

Building == pc = "build" /\ ops < MaxOps

Built(m) ==
    /\ matcher' = m
    /\ ops' = ops + 1
    /\ UNCHANGED <<pc, sample, result>>
    /\ UNCHANGED aggvars

NewParen == Building /\ Built(ParenMatcher(matcher))

NewNot == Building /\ Built(NotMatcher(matcher))

NewThen ==
    /\ Building
    /\ \E o \in Operands :
          \/ Built(ThenMatcher(matcher, o))
          \/ Built(ThenMatcher(o, matcher))

NewSkip ==
    /\ Building
    /\ \/ Built(SkipMatcher(matcher))
       \/ \E o \in Operands :
             \/ Built(SkipMatcher_with_condition(matcher, o))
             \/ Built(SkipMatcher_with_condition(o, matcher))

NewOr ==
    /\ Building
    /\ \E o \in Operands :
          \/ Built(OrMatcher(matcher, o))
          \/ Built(OrMatcher(o, matcher))

DoMatchTrace(stacks) ==
    /\ pc = "build"
    /\ \E s \in stacks :
          /\ sample' = s
          /\ result' = match_trace(matcher, s)
    /\ pc' = "match_trace"
    /\ UNCHANGED <<matcher, ops>>
    /\ UNCHANGED aggvars

DoSearchTrace(stacks) ==
    /\ pc = "build"
    /\ \E s \in stacks :
          /\ sample' = s
          /\ result' = search_trace(matcher, s)
    /\ pc' = "search_trace"
    /\ UNCHANGED <<matcher, ops>>
    /\ UNCHANGED aggvars

MatchTraceStep == DoMatchTrace(Stacks)

SearchTraceStep == DoSearchTrace(Stacks)

Next ==
    \/ NewParen
    \/ NewNot
    \/ NewThen
    \/ NewSkip
    \/ NewOr
    \/ MatchTraceStep
    \/ SearchTraceStep

Spec == Init /\ [][Next]_vars

(***************************************************************************)
(* SpecQuery: parse_matcher on a query of one production, then the search  *)
(* of main (and match_trace itself) on stacks of up to MaxQueryLen frames. *)
(***************************************************************************)
InitQuery ==
    /\ matcher \in MATCHER0
    /\ ops = 0
    /\ pc = "parse"
    /\ sample = <<>>
    /\ result = NoResult
    /\ NewAggregators

Parsed(m) ==
    /\ pc = "parse"
    /\ matcher' = m
    /\ pc' = "build"
    /\ UNCHANGED <<ops, sample, result>>
    /\ UNCHANGED aggvars

ParseCommaMatcher ==
    \E rhs \in MATCHER0 : Parsed(MATCHER_COMMA_MATCHER(matcher, rhs))

ParseNotThenMatcher ==
    \E rhs \in MATCHER0 : Parsed(MATCHER_NOT_THEN_MATCHER(matcher, rhs))

ParseThenNotMatcher ==
    \E rhs \in MATCHER0 : Parsed(MATCHER_THEN_NOT_MATCHER(matcher, rhs))

ParseSkipMatcher ==
    \E rhs \in MATCHER0 : Parsed(MATCHER_SKIP_MATCHER(matcher, rhs))

ParseMatcher0 == Parsed(matcher)

QueryMatchTrace == DoMatchTrace(QueryStacks)

QuerySearchTrace == DoSearchTrace(QueryStacks)

(***************************************************************************)
(* Helpers for the aggregators: Vec::sort (stable, by an integer key),     *)
(* Vec::dedup (drops consecutive repetitions), HashMap entry counting.     *)
(***************************************************************************)
\* the frame labels handed to the aggregators, in String order
AggLabels == <<"x", "y", "z">>

LabelSet == {AggLabels[i] : i \in 1..Len(AggLabels)}

StringRank(l) == CHOOSE i \in 1..Len(AggLabels) : AggLabels[i] = l

RECURSIVE SeqsOfLen(_, _)
SeqsOfLen(S, n) ==
    IF n = 0 THEN {<<>>}
    ELSE {<<f>> \o t : f \in S, t \in SeqsOfLen(S, n - 1)}

SeqsUpTo(S, n) == UNION {SeqsOfLen(S, k) : k \in 0..n}

Range(s) == {s[i] : i \in 1..Len(s)}

\* the elements of s, each computed once (collect())
Collected(s) == SubSeq(s, 1, Len(s))

\* the indices 1..n in the order a stable sort by the keys k[1..n] puts them
RECURSIVE SortedIdx(_, _)
SortedIdx(k, n) ==
    IF n = 0 THEN <<>>
    ELSE LET prev == SortedIdx(k, n - 1)
             pos == Cardinality({j \in 1..(n - 1) : k[j] <= k[n]})
         IN  SubSeq(prev, 1, pos) \o <<n>> \o SubSeq(prev, pos + 1, n - 1)

\* s sorted stably by the keys k, where k[i] is the key of s[i]
StableSortByKey(s0, k0) ==
    LET s == Collected(s0)
        k == Collected(k0)
        idx == SortedIdx(k, Len(s))
    IN  Collected([i \in 1..Len(s) |-> s[idx[i]]])

SortStrings(s) == StableSortByKey(s, [i \in 1..Len(s) |-> StringRank(s[i])])

RECURSIVE Dedup(_)
Dedup(s) ==
    IF Len(s) <= 1 THEN s
    ELSE IF s[1] = s[2] THEN Dedup(Tail(s))
    ELSE <<s[1]>> \o Dedup(Tail(s))

\* *map.entry(key).or_insert(0) += n
EntryAdd(map, key, n) ==
    IF key \in DOMAIN map THEN [map EXCEPT ![key] = @ + n]
    ELSE map @@ (key :> n)

\* map.get(key).cloned().unwrap_or(0)
GetOr0(map, key) == IF key \in DOMAIN map THEN map[key] ELSE 0

RECURSIVE SumOver(_, _)
SumOver(f, S) ==
    IF S = {} THEN 0
    ELSE LET x == CHOOSE y \in S : TRUE IN f[x] + SumOver(f, S \ {x})

\* the sum of all counts of a map
RECURSIVE CountEach(_, _)
CountEach(map, keys) ==
    IF keys = <<>> THEN map
    ELSE CountEach(EntryAdd(map, Head(keys), 1), Tail(keys))

(***************************************************************************)
(* Histogram (src/histogram/mod.rs).                                       *)
(***************************************************************************)
\* variant: the frames are not sorted before dedup
Histogram_add_frames_unsorted(self, frames) ==
    [self EXCEPT !.fns = CountEach(@, Dedup(frames))]

Histogram_add_frames(self, frames) ==
    [self EXCEPT !.fns = CountEach(@, Dedup(SortStrings(frames)))]

Histogram_get(self, key) == GetOr0(self.fns, key)

InitHist ==
    /\ matcher = empty_matcher
    /\ ops = 0
    /\ pc = "hist"
    /\ sample = <<>>
    /\ result = NoResult
    /\ hist = Histogram_new
    /\ graph = CallGraph_new
    /\ tree = Tree_new
    /\ ghost = [calls |-> 0, seen |-> [l \in LabelSet |-> 0]]
    /\ last = NoCall
    /\ each_trace = NoTraces
    /\ flat = Flat_new

\* ghost: the number of calls, and for each label the number of calls whose
\* frames contained it
\* the sequences add_frames is given
HistInputs == SeqsUpTo(LabelSet, MaxHistLen)

HistAddFrames ==
    /\ pc = "hist"
    /\ ghost.calls < MaxHistCalls
    /\ \E frames \in HistInputs :
          /\ hist' = Histogram_add_frames(hist, frames)
          /\ ghost' = [calls |-> ghost.calls + 1,
                       seen |-> [l \in LabelSet |->
                                   IF l \in Range(frames)
                                   THEN ghost.seen[l] + 1 ELSE ghost.seen[l]]]
          /\ last' = [op |-> "add_frames", frames |-> frames, before |-> hist]
    /\ UNCHANGED <<matcher, ops, pc, sample, result, graph, tree, each_trace, flat>>

NextHist == HistAddFrames

SpecHist == InitHist /\ [][NextHist]_vars

(***************************************************************************)
(* util::percent: num * 100.0 / denom in f64, cast to u32 (truncating; the *)
(* cast of NaN gives 0 and of infinity the largest value).                 *)
(***************************************************************************)
percent(num, denom) ==
    IF denom = 0 THEN (IF num = 0 THEN 0 ELSE IntMax)
    ELSE (num * 100) \div denom

\* what the cast in percent can give: for a finite quotient its integer
\* part; for NaN (0 / 0) and infinity (num / 0) the saturated value with a
\* compiler that defines the cast, and any u32 with one that does not
\* (0, 1 and the largest value stand for them)
percent_outcomes(num, denom) ==
    IF denom = 0 THEN {percent(num, denom)} \cup {0, 1, IntMax}
    ELSE {percent(num, denom)}

InitPercent ==
    /\ matcher = empty_matcher
    /\ ops = 0
    /\ pc = "percent"
    /\ sample = <<>>
    /\ result = NoResult
    /\ hist = Histogram_new
    /\ graph = CallGraph_new
    /\ tree = Tree_new
    /\ ghost \in [num : 0..MaxNum, denom : 0..MaxDenom]
    /\ last = NoCall
    /\ each_trace = NoTraces
    /\ flat = Flat_new

Percent ==
    /\ pc = "percent"
    /\ \E value \in percent_outcomes(ghost.num, ghost.denom) :
          last' = [op |-> "percent", value |-> value]
    /\ pc' = "percent_done"
    /\ UNCHANGED <<matcher, ops, sample, result, hist, graph, tree, ghost, each_trace, flat>>

NextPercent == Percent

SpecPercent == InitPercent /\ [][NextPercent]_vars

(***************************************************************************)
(* CallGraph (src/graph/mod.rs).  A NodeId is the 0-based index into       *)
(* node_counts; an Edge is a record of two NodeIds, ordered by caller and  *)
(* then callee.                                                            *)
(***************************************************************************)
MARKER == IntMax

Edge(caller, callee) == [caller |-> caller, callee |-> callee]

\* CallGraph::node_id: the graph after interning name, and its id
CallGraph_node_id(self, name) ==
    IF name \in DOMAIN self.nodes
    THEN [graph |-> self, id |-> self.nodes[name]]
    ELSE LET next_id == Len(self.node_counts)
         IN  [graph |-> [self EXCEPT !.nodes = @ @@ (name :> next_id),
                                     !.node_counts = Append(@, 0)],
              id |-> next_id]

\* frames.map(|frame| self.node_id(frame)).collect()
RECURSIVE InternAll(_, _, _)
InternAll(self, frames, node_ids) ==
    IF frames = <<>> THEN [graph |-> self, node_ids |-> node_ids]
    ELSE LET r == CallGraph_node_id(self, Head(frames))
         IN  InternAll(r.graph, Tail(frames), Append(node_ids, r.id))

SortIds(ids) == StableSortByKey(ids, ids)

RECURSIVE BumpCounts(_, _)
BumpCounts(node_counts, ids) ==
    IF ids = <<>> THEN node_counts
    ELSE BumpCounts([node_counts EXCEPT ![Head(ids) + 1] = @ + 1], Tail(ids))

\* variant: the sample is appended without the MARKER that ends it
CallGraph_add_frames_open(self0, frames) ==
    LET r == InternAll(self0, frames, <<>>)
        self == r.graph
        node_ids == r.node_ids
    IN  IF Len(node_ids) = 0 THEN self
        ELSE [self EXCEPT
                 !.frames = @ \o node_ids,
                 !.node_counts = BumpCounts(@, Dedup(SortIds(node_ids)))]

CallGraph_add_frames(self0, frames) ==
    LET r == InternAll(self0, frames, <<>>)
        self == r.graph
        node_ids == r.node_ids
    IN  IF Len(node_ids) = 0 THEN self
        ELSE [self EXCEPT
                 !.frames = @ \o node_ids \o <<MARKER>>,
                 !.node_counts = BumpCounts(@, Dedup(SortIds(node_ids)))]

\* percents after percents.sort(): pairs (percent, NodeId) in tuple order
SortedPercents(node_counts, total) ==
    LET n == Len(node_counts)
        pairs == [i \in 1..n |->
                    [percent |-> percent(node_counts[i], total), id |-> i - 1]]
        by_id == StableSortByKey(pairs, [i \in 1..n |-> pairs[i].id])
    IN  StableSortByKey(by_id, [i \in 1..n |-> by_id[i].percent])

Reverse(s) == [i \in 1..Len(s) |-> s[Len(s) + 1 - i]]

Take(s, n) == SubSeq(s, 1, IF n < Len(s) THEN n ELSE Len(s))

top_node_ids(node_counts, total, threshold) ==
    {p.id : p \in
        Range(Take(Reverse(SortedPercents(node_counts, total)), threshold))}

SortEdges(edges) ==
    LET n == Len(edges)
        by_callee == StableSortByKey(edges, [i \in 1..n |-> edges[i].callee])
    IN  StableSortByKey(by_callee, [i \in 1..n |-> by_callee[i].caller])

\* variant: every occurrence of an edge in the sample is counted
collect_edges_all(edges) == edges

\* edges.sort(); edges.dedup() at the end of a sample
collect_edges(edges) == Dedup(SortEdges(edges))

\* the loop of set_total over self.frames, from the 1-based position i, with
\* the local edges and the map self.edges; reading past the end panics
RECURSIVE EdgeLoop(_, _, _, _)
EdgeLoop(frames, i, edges, map) ==
    IF i > Len(frames) THEN [edges |-> map, panic |-> FALSE]
    ELSE LET caller == frames[i]
         IN  IF caller = MARKER
             THEN EdgeLoop(frames, i + 1, <<>>,
                           CountEach(map, collect_edges(edges)))
             ELSE IF i + 1 > Len(frames)
             THEN [edges |-> map, panic |-> TRUE]
             ELSE LET callee == frames[i + 1]
                  IN  EdgeLoop(frames, i + 1,
                               IF callee # MARKER
                               THEN Append(edges, Edge(caller, callee))
                               ELSE edges,
                               map)

construct_edges(frames, map) == EdgeLoop(frames, 1, <<>>, map)

\* CallGraph::set_total: the graph after the call, and whether it panicked
CallGraph_set_total(self, total, threshold) ==
    LET top == top_node_ids(self.node_counts, total, threshold)
        Keep(n) == n = MARKER \/ n \in top
        frames == SelectSeq(self.frames, Keep)
        r == construct_edges(frames, self.edges)
    IN  [graph |-> [self EXCEPT !.total = total, !.frames = frames,
                                !.edges = r.edges],
         panic |-> r.panic]

InitGraph ==
    /\ matcher = empty_matcher
    /\ ops = 0
    /\ pc = "graph"
    /\ sample = <<>>
    /\ result = NoResult
    /\ hist = Histogram_new
    /\ graph = CallGraph_new
    /\ tree = Tree_new
    /\ ghost = [calls |-> 0, samples |-> <<>>]
    /\ last = NoCall
    /\ each_trace = NoTraces
    /\ flat = Flat_new

\* the sequences add_frames is given
GraphInputs == SeqsUpTo(LabelSet, MaxGraphWork - 1)

RECURSIVE GraphWork(_)
GraphWork(samples) ==
    IF samples = <<>> THEN 0
    ELSE Len(Head(samples)) + 1 + GraphWork(Tail(samples))

\* ghost: the number of calls and the sequences they were given
GraphAddFrames ==
    /\ pc = "graph"
    /\ \E frames \in GraphInputs :
          /\ GraphWork(ghost.samples) + Len(frames) + 1 <= MaxGraphWork
          /\ graph' = CallGraph_add_frames(graph, frames)
          /\ ghost' = [calls |-> ghost.calls + 1,
                       samples |-> Append(ghost.samples, frames)]
          /\ last' = [op |-> "add_frames", frames |-> frames, before |-> graph]
    /\ UNCHANGED <<matcher, ops, pc, sample, result, hist, tree, each_trace, flat>>

\* main: total = matches + not_matches, one add_frames call per match
GraphSetTotal ==
    /\ pc = "graph"
    /\ \E not_matches \in {0, ManyMisses}, threshold \in 0..MaxTopN :
          LET total == ghost.calls + not_matches
              r == CallGraph_set_total(graph, total, threshold)
          IN  /\ graph' = r.graph
              /\ pc' = IF r.panic THEN "graph_panic" ELSE "graph_done"
              /\ last' = [op |-> "set_total", total |-> total,
                          threshold |-> threshold, before |-> graph]
    /\ UNCHANGED <<matcher, ops, sample, result, hist, tree, ghost, each_trace, flat>>

NextGraph ==
    \/ GraphAddFrames
    \/ GraphSetTotal

SpecGraph == InitGraph /\ [][NextGraph]_vars

(***************************************************************************)
(* Tree and TreeNode (src/tree/mod.rs).  A node is a record; its children  *)
(* are a sequence of nodes.                                                *)
(***************************************************************************)
RECURSIVE Concat(_)
Concat(ss) == IF ss = <<>> THEN <<>> ELSE Head(ss) \o Concat(Tail(ss))

\* variant: the first child is taken, whatever its label
find_child_first(children, child_label) ==
    IF children = <<>> THEN 0 ELSE 1

\* the position of the first child with this label, 0 when there is none
find_child(children, child_label) ==
    LET found == {i \in 1..Len(children) : children[i].label = child_label}
    IN  IF found = {} THEN 0
        ELSE CHOOSE i \in found : \A j \in found : i <= j

RECURSIVE TreeNode_add_frames(_, _)
TreeNode_add_frames(self0, frames) ==
    LET self == [self0 EXCEPT !.hits_total = @ + 1]
    IN  IF frames # <<>>
        THEN LET child_label == Head(frames)
                 i == find_child(self.children, child_label)
             IN  IF i # 0
                 THEN [self EXCEPT !.children[i] =
                                      TreeNode_add_frames(@, Tail(frames))]
                 ELSE [self EXCEPT !.children =
                          Append(@, TreeNode_add_frames(TreeNode_new(child_label),
                                                        Tail(frames)))]
        ELSE [self EXCEPT !.hits_self = @ + 1]

Tree_add_frames(self, frames) ==
    [self EXCEPT !.root_node = TreeNode_add_frames(@, frames)]

RECURSIVE TreeNode_sort(_)
TreeNode_sort(self) ==
    LET n == Len(self.children)
        sorted == StableSortByKey(self.children,
                     [i \in 1..n |-> IntMax - self.children[i].hits_total])
    IN  [self EXCEPT !.children =
                        Collected([i \in 1..n |-> TreeNode_sort(sorted[i])])]

Tree_sort(self) == [self EXCEPT !.root_node = TreeNode_sort(@)]

RECURSIVE TreeNode_only_leaves(_)
RECURSIVE TreeNode_into_only_leaves(_)
\* variant: a node with hits of its own is kept without its children
TreeNode_into_only_leaves_flat(self0) ==
    LET self == TreeNode_only_leaves(self0)
    IN  IF self.hits_self > 0 THEN <<[self EXCEPT !.children = <<>>]>>
        ELSE self.children

TreeNode_into_only_leaves(self0) ==
    LET self == TreeNode_only_leaves(self0)
    IN  IF self.hits_self > 0 THEN <<self>> ELSE self.children

TreeNode_only_leaves(self) ==
    [self EXCEPT !.children =
        Concat(Collected([i \in 1..Len(self.children) |->
                             TreeNode_into_only_leaves(self.children[i])]))]

Tree_only_leaves(self) == [self EXCEPT !.root_node = TreeNode_only_leaves(@)]

\* variant: the hits of a collapsed child are not added to hits_self
rollup_children_lossy(self, rs) ==
    LET n == Len(self.children)
        visited == Collected([i \in 1..n |->
                      IF ~rs[i].ok THEN [self.children[i] EXCEPT !.hits_total = 0]
                      ELSE rs[i].node])
        Kept(c) == c.hits_total # 0
    IN  [self EXCEPT !.children = SelectSeq(visited, Kept)]

\* the loop of TreeNode::rollup over the children and the retain after it,
\* given rs[i], the result of the i-th child's own rollup
rollup_children(self, rs) ==
    LET n == Len(self.children)
        collapsed == {i \in 1..n : ~rs[i].ok}
        hits == [i \in 1..n |-> self.children[i].hits_total]
        visited == Collected([i \in 1..n |->
                      IF ~rs[i].ok THEN [self.children[i] EXCEPT !.hits_total = 0]
                      ELSE rs[i].node])
        Kept(c) == c.hits_total # 0
    IN  [self EXCEPT !.hits_self = @ + SumOver(hits, collapsed),
                     !.children = SelectSeq(visited, Kept)]

\* TreeNode::rollup: the node after the call, the value returned, and
\* whether the assertion on a kept child failed
RECURSIVE TreeNode_rollup(_, _, _, _, _)
TreeNode_rollup(self, parents, total_samples, max_depth, min_percent) ==
    IF percent(self.hits_total, total_samples) < min_percent
    THEN [node |-> self, ok |-> FALSE, panic |-> FALSE]
    ELSE IF parents > max_depth
    THEN [node |-> self, ok |-> FALSE, panic |-> FALSE]
    ELSE LET rs == Collected([i \in 1..Len(self.children) |->
                       TreeNode_rollup(self.children[i], parents + 1,
                                       total_samples, max_depth, min_percent)])
         IN  [node |-> rollup_children(self, rs),
              ok |-> TRUE,
              panic |-> \E i \in 1..Len(rs) :
                           rs[i].panic \/ (rs[i].ok /\ rs[i].node.hits_total = 0)]

\* variant: without the final sort
Tree_rollup_unsorted(self, total_samples, max_depth, min_percent) ==
    LET rs == Collected([i \in 1..Len(self.root_node.children) |->
                  TreeNode_rollup(self.root_node.children[i], 0,
                                  total_samples, max_depth, min_percent)])
    IN  [tree |-> [self EXCEPT !.root_node.children =
                                  Collected([i \in 1..Len(rs) |-> rs[i].node])],
         panic |-> \E i \in 1..Len(rs) : rs[i].panic]

\* Tree::rollup: the value returned for a child of the root is not used
Tree_rollup(self, total_samples, max_depth, min_percent) ==
    LET rs == Collected([i \in 1..Len(self.root_node.children) |->
                  TreeNode_rollup(self.root_node.children[i], 0,
                                  total_samples, max_depth, min_percent)])
    IN  [tree |-> Tree_sort([self EXCEPT !.root_node.children =
                              Collected([i \in 1..Len(rs) |-> rs[i].node])]),
         panic |-> \E i \in 1..Len(rs) : rs[i].panic]

\* TreeNode::for_each_leaf: the calls of f in order, and whether the
\* assertion failed
RECURSIVE TreeNode_for_each_leaf(_)
TreeNode_for_each_leaf(self) ==
    IF self.children # <<>>
    THEN LET rs == Collected([i \in 1..Len(self.children) |->
                       TreeNode_for_each_leaf(self.children[i])])
         IN  [calls |-> Concat(Collected([i \in 1..Len(rs) |-> rs[i].calls])),
              panic |-> \E i \in 1..Len(rs) : rs[i].panic]
    ELSE [calls |-> <<[label |-> self.label, hits |-> self.hits_total]>>,
          panic |-> self.hits_total # self.hits_self]

Tree_for_each_leaf(self) == TreeNode_for_each_leaf(self.root_node)

TreeLabels == {AggLabels[1], AggLabels[2]}

\* the sequences add_frames is given
TreeInputs == SeqsUpTo(TreeLabels, MaxTreeWork - 1)

\* ghost: the number of add_frames calls and the sequences they were given,
\* the number of other calls, and whether only add_frames and sort were
\* called so far
InitTree ==
    /\ matcher = empty_matcher
    /\ ops = 0
    /\ pc = "tree"
    /\ sample = <<>>
    /\ result = NoResult
    /\ hist = Histogram_new
    /\ graph = CallGraph_new
    /\ tree = Tree_new
    /\ ghost = [calls |-> 0, samples |-> <<>>, ops |-> 0, built |-> TRUE]
    /\ last = NoCall
    /\ each_trace = NoTraces
    /\ flat = Flat_new

TreeAddFrames ==
    /\ pc = "tree"
    /\ \E frames \in TreeInputs :
          /\ GraphWork(ghost.samples) + Len(frames) + 1 <= MaxTreeWork
          /\ tree' = Tree_add_frames(tree, frames)
          /\ ghost' = [ghost EXCEPT !.calls = @ + 1,
                                    !.samples = Append(@, frames)]
          /\ last' = [op |-> "add_frames", frames |-> frames, before |-> tree]
    /\ UNCHANGED <<matcher, ops, pc, sample, result, hist, graph, each_trace, flat>>

TreeSort ==
    /\ pc = "tree"
    /\ ghost.ops < MaxTreeOps
    /\ tree' = Tree_sort(tree)
    /\ ghost' = [ghost EXCEPT !.ops = @ + 1]
    /\ last' = [op |-> "sort", before |-> tree]
    /\ UNCHANGED <<matcher, ops, pc, sample, result, hist, graph, each_trace, flat>>

\* total_samples is the number of samples added
TreeRollup ==
    /\ pc = "tree"
    /\ ghost.ops < MaxTreeOps
    /\ \E max_depth \in 0..MaxDepthArg \cup {IntMax},
          min_percent \in {0, SomePercent} :
          LET r == Tree_rollup(tree, ghost.calls, max_depth, min_percent)
          IN  /\ tree' = r.tree
              /\ pc' = IF r.panic THEN "tree_panic" ELSE "tree"
              /\ last' = [op |-> "rollup", before |-> tree,
                          total_samples |-> ghost.calls,
                          max_depth |-> max_depth, min_percent |-> min_percent,
                          built |-> ghost.built]
    /\ ghost' = [ghost EXCEPT !.ops = @ + 1, !.built = FALSE]
    /\ UNCHANGED <<matcher, ops, sample, result, hist, graph, each_trace, flat>>

TreeOnlyLeaves ==
    /\ pc = "tree"
    /\ ghost.ops < MaxTreeOps
    /\ tree' = Tree_only_leaves(tree)
    /\ ghost' = [ghost EXCEPT !.ops = @ + 1, !.built = FALSE]
    /\ last' = [op |-> "only_leaves", before |-> tree]
    /\ UNCHANGED <<matcher, ops, pc, sample, result, hist, graph, each_trace, flat>>

\* the tree is read once, when the output is written
TreeForEachLeaf ==
    /\ pc = "tree"
    /\ LET r == Tree_for_each_leaf(tree)
       IN  /\ pc' = IF r.panic THEN "tree_panic" ELSE "tree_leaves"
           /\ last' = [op |-> "for_each_leaf", calls |-> r.calls]
    /\ UNCHANGED <<matcher, ops, sample, result, hist, graph, tree, ghost, each_trace, flat>>

NextTree ==
    \/ TreeAddFrames
    \/ TreeSort
    \/ TreeRollup
    \/ TreeOnlyLeaves
    \/ TreeForEachLeaf

SpecTree == InitTree /\ [][NextTree]_vars

(***************************************************************************)
(* The parser of src/matcher/parser.rs on the text of a query, a sequence  *)
(* of characters.  A symbol at an offset fails, or gives a matcher and the *)
(* offset after it; A / B tries B only when A has failed.                  *)
(***************************************************************************)
Fail == [ok |-> FALSE]

Parse(m, offset) == [ok |-> TRUE, m |-> m, offset |-> offset]

\* a literal of the grammar: the offset after it, or -1
Literal(text, offset, s) ==
    IF /\ offset + Len(s) <= Len(text)
       /\ SubSeq(text, offset + 1, offset + Len(s)) = s
    THEN offset + Len(s) ELSE -1

\* the loop of MATCHER_RE::parse: the offset of the closing brace, or -1
RECURSIVE ScanBraces(_, _, _)
ScanBraces(text, offset0, balance) ==
    IF balance = 0 THEN offset0
    ELSE LET offset == offset0 + 1
         IN  IF offset >= Len(text) THEN -1
             ELSE CASE text[offset + 1] = "{" ->
                         ScanBraces(text, offset, balance + 1)
                    [] text[offset + 1] = "}" ->
                         ScanBraces(text, offset, balance - 1)
                    [] text[offset + 1] = "\\" ->
                         ScanBraces(text, offset + 1, balance)
                    [] OTHER -> ScanBraces(text, offset, balance)

Parse_MATCHER_RE(text, input_offset) ==
    IF input_offset >= Len(text) \/ text[input_offset + 1] # "{" THEN Fail
    ELSE LET closing == ScanBraces(text, input_offset, 1)
             offset == closing + 1
         IN  IF closing = -1 THEN Fail
             ELSE Parse(MATCHER_RE(SubSeq(text, input_offset + 2, offset - 1)),
                        offset)

Parse_MATCHER_ANY(text, offset) ==
    IF Literal(text, offset, <<".">>) = -1 THEN Fail
    ELSE Parse(MATCHER_ANY, Literal(text, offset, <<".">>))

RECURSIVE Parse_MATCHER(_, _)
RECURSIVE Parse_MATCHER0(_, _)
RECURSIVE Parse_MATCHER1(_, _)

\* an ordered choice: the first alternative that parses
FirstOk(first, others) == IF first.ok THEN first ELSE others

\* rhs:MATCHER0 or rhs:MATCHER after the literal that ends at offset o
Parse_rhs(text, o, rhs_is_matcher0) ==
    IF o = -1 THEN Fail
    ELSE IF rhs_is_matcher0 THEN Parse_MATCHER0(text, o)
    ELSE Parse_MATCHER(text, o)

Parsed_Binary(lhs, rhs) ==
    IF ~rhs.ok THEN Fail
    ELSE [ok |-> TRUE, lhs |-> lhs.m, rhs |-> rhs.m, offset |-> rhs.offset]

Parse_Binary_after(text, lhs, op, rhs_is_matcher0) ==
    IF ~lhs.ok THEN Fail
    ELSE Parsed_Binary(lhs, Parse_rhs(text, Literal(text, lhs.offset, op),
                                      rhs_is_matcher0))

\* lhs:MATCHER0, the literal op, rhs:MATCHER0 or rhs:MATCHER
Parse_Binary(text, offset, op, rhs_is_matcher0) ==
    Parse_Binary_after(text, Parse_MATCHER0(text, offset), op,
                       rhs_is_matcher0)

Parsed_MATCHER_COMMA_MATCHER(r) ==
    IF ~r.ok THEN Fail
    ELSE Parse(MATCHER_COMMA_MATCHER(r.lhs, r.rhs), r.offset)

Parse_MATCHER_COMMA_MATCHER(text, offset) ==
    Parsed_MATCHER_COMMA_MATCHER(Parse_Binary(text, offset, <<",">>, FALSE))

Parsed_MATCHER_THEN_NOT_MATCHER(r) ==
    IF ~r.ok THEN Fail
    ELSE Parse(MATCHER_THEN_NOT_MATCHER(r.lhs, r.rhs), r.offset)

Parse_MATCHER_THEN_NOT_MATCHER(text, offset) ==
    Parsed_MATCHER_THEN_NOT_MATCHER(
        Parse_Binary(text, offset, <<".", ".", "!">>, TRUE))

Parsed_MATCHER_SKIP_MATCHER(r) ==
    IF ~r.ok THEN Fail
    ELSE Parse(MATCHER_SKIP_MATCHER(r.lhs, r.rhs), r.offset)

Parse_MATCHER_SKIP_MATCHER(text, offset) ==
    Parsed_MATCHER_SKIP_MATCHER(
        Parse_Binary(text, offset, <<".", ".">>, FALSE))

Parsed_MATCHER_NOT_THEN_MATCHER(r) ==
    IF ~r.ok THEN Fail
    ELSE Parse(MATCHER_NOT_THEN_MATCHER(r.lhs, r.rhs), r.offset)

Parse_MATCHER_NOT_THEN_MATCHER(text, offset) ==
    IF Literal(text, offset, <<"!">>) = -1 THEN Fail
    ELSE Parsed_MATCHER_NOT_THEN_MATCHER(
             Parse_Binary(text, Literal(text, offset, <<"!">>),
                          <<".", ".">>, TRUE))

Parsed_MATCHER_OR(lhs, rhs) ==
    IF ~rhs.ok THEN Fail ELSE Parse(OrMatcher(lhs.m, rhs.m), rhs.offset)

Parse_MATCHER_OR_after(text, lhs, o) ==
    IF o = -1 THEN Fail
    ELSE Parsed_MATCHER_OR(lhs, Parse_MATCHER1(text, o))

Parse_MATCHER_OR_lhs(text, lhs) ==
    IF ~lhs.ok THEN Fail
    ELSE Parse_MATCHER_OR_after(text, lhs,
                                Literal(text, lhs.offset, <<"/">>))

Parse_MATCHER_OR(text, offset) ==
    Parse_MATCHER_OR_lhs(text, Parse_MATCHER0(text, offset))

Parsed_MATCHER_SKIP(rhs) ==
    IF ~rhs.ok THEN Fail ELSE Parse(MATCHER_SKIP(rhs.m), rhs.offset)

Parse_MATCHER_SKIP(text, offset) ==
    IF Literal(text, offset, <<".", ".">>) = -1 THEN Fail
    ELSE Parsed_MATCHER_SKIP(
             Parse_MATCHER0(text, Literal(text, offset, <<".", ".">>)))

Parsed_MATCHER_PAREN(text, rhs) ==
    IF ~rhs.ok \/ Literal(text, rhs.offset, <<")">>) = -1 THEN Fail
    ELSE Parse(ParenMatcher(rhs.m), Literal(text, rhs.offset, <<")">>))

Parse_MATCHER_PAREN(text, offset) ==
    IF Literal(text, offset, <<"(">>) = -1 THEN Fail
    ELSE Parsed_MATCHER_PAREN(
             text, Parse_MATCHER(text, Literal(text, offset, <<"(">>)))

Parse_MATCHER0(text, offset) ==
    FirstOk(Parse_MATCHER_RE(text, offset),
    FirstOk(Parse_MATCHER_SKIP(text, offset),
    FirstOk(Parse_MATCHER_PAREN(text, offset),
            Parse_MATCHER_ANY(text, offset))))

Parse_MATCHER1(text, offset) ==
    FirstOk(Parse_MATCHER_OR(text, offset), Parse_MATCHER0(text, offset))

Parse_MATCHER(text, offset) ==
    FirstOk(Parse_MATCHER_COMMA_MATCHER(text, offset),
    FirstOk(Parse_MATCHER_NOT_THEN_MATCHER(text, offset),
    FirstOk(Parse_MATCHER_THEN_NOT_MATCHER(text, offset),
    FirstOk(Parse_MATCHER_SKIP_MATCHER(text, offset),
            Parse_MATCHER0(text, offset)))))

Complete(s, r) == IF r.ok /\ r.offset = Len(s) THEN r ELSE Fail

\* parse_matcher: MATCHER.parse_complete, which fails when text is left
parse_matcher(s) == Complete(s, Parse_MATCHER(s, 0))

\* what a query is typed from
Pieces ==
    {<<"{", "a", "}">>, <<"{", "b", "}">>, <<".">>, <<",">>, <<"!">>, <<"/">>,
     <<"(">>, <<")">>}

\* ghost.text is the query typed so far, of ghost.pieces pieces
InitParse ==
    /\ matcher = empty_matcher
    /\ ops = 0
    /\ pc = "type"
    /\ sample = <<>>
    /\ result = NoResult
    /\ hist = Histogram_new
    /\ graph = CallGraph_new
    /\ tree = Tree_new
    /\ ghost = [text |-> <<>>, pieces |-> 0]
    /\ last = NoCall
    /\ each_trace = NoTraces
    /\ flat = Flat_new

TypePiece ==
    /\ pc = "type"
    /\ ghost.pieces < MaxPieces
    /\ \E piece \in Pieces :
          ghost' = [text |-> ghost.text \o piece, pieces |-> ghost.pieces + 1]
    /\ UNCHANGED <<matcher, ops, pc, sample, result, hist, graph, tree, last, each_trace, flat>>

ParsedTo(r) ==
    /\ pc' = IF r.ok THEN "parsed" ELSE "parse_error"
    /\ matcher' = IF r.ok THEN r.m ELSE matcher

ParseMatcher ==
    /\ pc = "type"
    /\ ParsedTo(parse_matcher(ghost.text))
    /\ last' = [op |-> "parse_matcher"]
    /\ UNCHANGED <<ops, sample, result, hist, graph, tree, ghost, each_trace, flat>>

NextParse ==
    \/ TypePiece
    \/ ParseMatcher

SpecParse == InitParse /\ [][NextParse]_vars

(***************************************************************************)
(* add_frames of src/main.rs: what main hands to the aggregator for a      *)
(* matched sample.  A string is the sequence of its characters.            *)
(***************************************************************************)
RECURSIVE Debug(_)
Debug(m) ==
    CASE m.tag = "Regex" -> <<"{">> \o m.text \o <<"}">>
      [] m.tag = "Wildcard" -> <<".">>
      [] m.tag = "Empty" -> <<"(", ")">>
      [] m.tag = "Paren" -> <<"(">> \o Debug(m.matcher) \o <<")">>
      [] m.tag = "Not" -> <<"!">> \o Debug(m.matcher)
      [] m.tag = "Then" -> Debug(m.left) \o <<",">> \o Debug(m.right)
      [] m.tag = "Skip" ->
            IF m.condition.tag = "Empty"
            THEN <<".", ".">> \o Debug(m.needle)
            ELSE <<".", ".">> \o Debug(m.needle)
                   \o <<" ", "w", "h", "i", "l", "e", " ">> \o Debug(m.condition)
      [] m.tag = "Or" -> Debug(m.left) \o <<"/">> \o Debug(m.right)

\* the backquote character, written by its code point
Backquote == "U+0060"

\* the marker frame: "matched ", then the matcher's Debug form in backquotes
matched(m) ==
    <<"m", "a", "t", "c", "h", "e", "d", " ", Backquote>>
       \o Debug(m) \o <<Backquote>>

\* Regex::replace_all for a regex that is a literal, non-empty text
RECURSIVE replace_all(_, _, _)
replace_all(text, frame, repl) ==
    IF Len(frame) < Len(text) THEN frame
    ELSE IF SubSeq(frame, 1, Len(text)) = text
    THEN repl \o replace_all(text, DropFrames(frame, Len(text)), repl)
    ELSE <<Head(frame)>> \o replace_all(text, Tail(frame), repl)

RECURSIVE RenameWith(_, _)
RenameWith(rename, frame) ==
    IF rename = <<>> THEN frame
    ELSE RenameWith(Tail(rename),
                    replace_all(Head(rename).regex, frame, Head(rename).repl))

rename_frame(options, frame) == RenameWith(options.rename, frame)

GraphModes == {"All", "Caller", "Callee"}

\* the values of options.rename: none (the default), or b for every a
Renames == {<<>>, <<[regex |-> <<"a">>, repl |-> <<"b">>]>>}

\* variant: the callers are handed over bottom first, the marker last
add_frames_unreversed(m, mode, frames, r, options) ==
    LET renamed == Collected([i \in 1..Len(frames) |->
                                 rename_frame(options, frames[i])])
    IN  CASE mode = "All" -> renamed
          [] mode = "Caller" ->
                Take(renamed, r.first_matching_frame) \o <<matched(m)>>
          [] mode = "Callee" ->
                <<matched(m)>> \o DropFrames(renamed, r.first_callee_frame)

\* the sequence add_frames passes to acc.add_frames
add_frames(m, mode, frames, r, options) ==
    LET renamed == Collected([i \in 1..Len(frames) |->
                                 rename_frame(options, frames[i])])
    IN  CASE mode = "All" -> renamed
          [] mode = "Caller" ->
                Reverse(Take(renamed, r.first_matching_frame) \o <<matched(m)>>)
          [] mode = "Callee" ->
                <<matched(m)>> \o DropFrames(renamed, r.first_callee_frame)

\* main after a successful search, with graph_mode or tree_mode set
MainAddFrames ==
    /\ pc = "search_trace"
    /\ result.found
    /\ \E mode \in GraphModes, rename \in Renames, acc \in {"graph", "tree"} :
          LET options == [rename |-> rename]
              handed == add_frames(matcher, mode, sample, result, options)
          IN  /\ graph' = IF acc = "graph"
                          THEN CallGraph_add_frames(graph, handed) ELSE graph
              /\ tree' = IF acc = "tree"
                         THEN Tree_add_frames(tree, handed) ELSE tree
              /\ last' = [op |-> "add_frames", mode |-> mode,
                          options |-> options, acc |-> acc, frames |-> handed]
    /\ pc' = "add_frames"
    /\ UNCHANGED <<matcher, ops, sample, result, hist, ghost, each_trace, flat>>

NextQuery ==
    \/ ParseCommaMatcher
    \/ ParseNotThenMatcher
    \/ ParseThenNotMatcher
    \/ ParseSkipMatcher
    \/ ParseMatcher0
    \/ QueryMatchTrace
    \/ QuerySearchTrace
    \/ MainAddFrames

SpecQuery == InitQuery /\ [][NextQuery]_vars

(***************************************************************************)
(* each_trace of src/trace/mod.rs and the callback that main gives it.     *)
(* The input is a sequence of lines, a line a sequence of characters.      *)
(* Each constant text of src/rustc_query.rs is one piece of a line: the    *)
(* inputs hold it whole or not at all.  The run is one without --hist,     *)
(* --graph and --tree, so that the callback ends after its printing.       *)
(***************************************************************************)
is_whitespace(c) == c \in {" ", "\t"}

starts_with(s, prefix) ==
    Len(s) >= Len(prefix) /\ SubSeq(s, 1, Len(prefix)) = prefix

ends_with(s, suffix) ==
    /\ Len(s) >= Len(suffix)
    /\ SubSeq(s, Len(s) - Len(suffix) + 1, Len(s)) = suffix

starts_with_whitespace(s) == s # <<>> /\ is_whitespace(s[1])

RECURSIVE trim_start(_)
trim_start(s) ==
    IF starts_with_whitespace(s) THEN trim_start(Tail(s)) ELSE s

RECURSIVE trim_end(_)
trim_end(s) ==
    IF s # <<>> /\ is_whitespace(s[Len(s)])
    THEN trim_end(SubSeq(s, 1, Len(s) - 1))
    ELSE s

trim(s) == trim_end(trim_start(s))

\* str::split(char::is_whitespace): the pieces between the whitespace
\* characters, the empty ones included
RECURSIVE split_is_whitespace(_)
split_is_whitespace(s) ==
    IF \E i \in 1..Len(s) : is_whitespace(s[i])
    THEN LET i == CHOOSE k \in 1..Len(s) :
                      /\ is_whitespace(s[k])
                      /\ \A j \in 1..(k - 1) : ~is_whitespace(s[j])
         IN <<SubSeq(s, 1, i - 1)>>
                \o split_is_whitespace(SubSeq(s, i + 1, Len(s)))
    ELSE <<s>>

\* skip(1) of an iterator
skip_1(words) == IF words = <<>> THEN <<>> ELSE Tail(words)

\* take_while(|w| !w.starts_with('('))
RECURSIVE take_while_not_paren(_)
take_while_not_paren(words) ==
    IF words = <<>> \/ starts_with(Head(words), <<"(">>) THEN <<>>
    ELSE <<Head(words)>> \o take_while_not_paren(Tail(words))

RECURSIVE intersperse(_, _)
intersperse(words, sep) ==
    IF Len(words) <= 1 THEN words
    ELSE <<Head(words), sep>> \o intersperse(Tail(words), sep)

\* the function name of a frame line: its words after the address up to
\* the one that opens the parenthesis, joined by single spaces
fn_name(frame) ==
    Concat(intersperse(
        take_while_not_paren(skip_1(split_is_whitespace(trim(frame)))),
        <<" ">>))

\* variant: the stack in the order of the input
callstack_in_input_order(frames) ==
    [i \in 1..(Len(frames) - 1) |-> fn_name(frames[i + 1])]

\* the callstack of a sample: frames[1..] in reverse
callstack(frames) ==
    [i \in 1..(Len(frames) - 1) |-> fn_name(frames[Len(frames) + 1 - i])]

process_name(frames) == Head(split_is_whitespace(frames[1]))

TraceArgs(frames) ==
    [header |-> frames, process_name |-> process_name(frames),
     stack |-> callstack(frames)]

(***************************************************************************)
(* src/rustc_query.rs.                                                     *)
(***************************************************************************)
QUERY_PREFIX_0 == <<"rustc::ty::maps::<impl rustc::ty::maps::queries::">>

QUERY_SUFFIX_0 == <<">::force">>

QUERY_PREFIX_1 == <<"rustc::ty::maps::__query_compute::">>

QUERY_PREFIX_2 == <<"_ZN5rustc2ty4maps15__query_compute">>

Digits == <<"0", "1", "2", "3", "4", "5", "6", "7", "8", "9">>

is_ascii_digit(c) == c \in Range(Digits)

\* the while loop of match_query over the 0-based index num_chars_end;
\* -1 when the index runs off the end of the frame
RECURSIVE num_chars_end_loop(_, _)
num_chars_end_loop(frame, num_chars_end) ==
    IF num_chars_end >= Len(frame) THEN -1
    ELSE IF is_ascii_digit(frame[num_chars_end + 1])
         THEN num_chars_end_loop(frame, num_chars_end + 1)
         ELSE num_chars_end

RECURSIVE Decimal(_)
Decimal(s) ==
    IF s = <<>> THEN 0
    ELSE Decimal(SubSeq(s, 1, Len(s) - 1)) * 10
            + (CHOOSE d \in 0..9 : Digits[d + 1] = s[Len(s)])

\* usize::from_str: digits after an optional plus sign; -1 for Err
usize_from_str(s) ==
    LET d == IF starts_with(s, <<"+">>) THEN Tail(s) ELSE s
    IN IF d = <<>> \/ \E i \in 1..Len(d) : ~is_ascii_digit(d[i]) THEN -1
       ELSE Decimal(d)

NoQuery == [panic |-> FALSE, some |-> FALSE, name |-> <<>>]

Query(name) == [panic |-> FALSE, some |-> TRUE, name |-> name]

QueryPanic == [panic |-> TRUE, some |-> FALSE, name |-> <<>>]

match_query(frame) ==
    IF starts_with(frame, QUERY_PREFIX_0) /\ ends_with(frame, QUERY_SUFFIX_0)
    THEN IF Len(QUERY_PREFIX_0) > Len(frame) - Len(QUERY_SUFFIX_0)
         THEN QueryPanic
         ELSE Query(SubSeq(frame, Len(QUERY_PREFIX_0) + 1,
                           Len(frame) - Len(QUERY_SUFFIX_0)))
    ELSE IF starts_with(frame, QUERY_PREFIX_1)
    THEN Query(SubSeq(frame, Len(QUERY_PREFIX_1) + 1, Len(frame)))
    ELSE IF starts_with(frame, QUERY_PREFIX_2)
    THEN LET num_chars_start == Len(QUERY_PREFIX_2)
             num_chars_end == num_chars_end_loop(frame, num_chars_start + 1)
             num_chars ==
                 usize_from_str(
                     SubSeq(frame, num_chars_start + 1, num_chars_end))
         IN IF num_chars_end = -1 \/ num_chars = -1 THEN QueryPanic
            ELSE IF num_chars_end + num_chars > Len(frame) THEN QueryPanic
            ELSE Query(SubSeq(frame, num_chars_end + 1,
                              num_chars_end + num_chars))
    ELSE NoQuery

RECURSIVE filter_map_match_query(_)
filter_map_match_query(stack) ==
    IF stack = <<>> THEN [panic |-> FALSE, stack |-> <<>>]
    ELSE LET q == match_query(Head(stack))
             rest == filter_map_match_query(Tail(stack))
         IN IF q.panic \/ rest.panic THEN [panic |-> TRUE, stack |-> <<>>]
            ELSE [panic |-> FALSE,
                  stack |-> (IF q.some THEN <<q.name>> ELSE <<>>)
                                \o rest.stack]

main_frame == <<"m", "a", "i", "n", "(", ")">>

to_query_stack(stack) ==
    LET queries == filter_map_match_query(stack)
    IN [panic |-> queries.panic, stack |-> <<main_frame>> \o queries.stack]

(***************************************************************************)
(* print_trace of src/main.rs: the two bounds of the selection, and        *)
(* whether the subtractions or one of the three slices panic.              *)
(***************************************************************************)
\* header[from..to] is in range
slice_in_range(header, from, to) == from <= to /\ to <= Len(header)

print_trace(header, selected) ==
    IF selected.found
    THEN LET selection_start == Len(header) - selected.first_callee_frame
             selection_end == Len(header) - selected.first_matching_frame
         IN [selection_start |-> selection_start,
             selection_end |-> selection_end,
             panic |->
                 \/ selection_start < 0
                 \/ selection_end < 0
                 \/ header = <<>>
                 \/ ~slice_in_range(header, 1, selection_start)
                 \/ ~slice_in_range(header, selection_start, selection_end)
                 \/ ~slice_in_range(header, selection_end, Len(header))]
    ELSE [selection_start |-> 0, selection_end |-> 0, panic |-> FALSE]

(***************************************************************************)
(* The closure of main (src/main.rs 239-273) on one sample.                *)
(***************************************************************************)
NoFilter == [some |-> FALSE]

Filter(regex) == [some |-> TRUE, regex |-> regex]

Counted(counters, panic, matches, not_matches, call) ==
    [panic |-> panic, matches |-> counters.matches + matches,
     not_matches |-> counters.not_matches + not_matches, call |-> call]

\* the match arm after print_trace
main_printed(args, options, counters, stack, r, p) ==
    Counted(counters, p.panic, 1, 0,
            [op |-> "match", header |-> args.header, stack |-> stack,
             first_matching_frame |-> r.first_matching_frame,
             first_callee_frame |-> r.first_callee_frame,
             printed |-> options.print_match,
             selection_start |-> p.selection_start,
             selection_end |-> p.selection_end])

\* the two arms of if let Some(result) = matcher.search_trace(..)
main_searched(args, options, counters, stack, r) ==
    IF r.found
    THEN main_printed(args, options, counters, stack, r,
                      print_trace(args.header,
                                  IF options.print_match THEN r
                                  ELSE None(<<>>)))
    ELSE Counted(counters, FALSE, 0, 1,
                 [op |-> "miss", header |-> args.header, stack |-> stack])

\* the closure from the rewriting of the stack on
main_rewritten(args, m, options, counters, q) ==
    IF q.panic
    THEN Counted(counters, TRUE, 0, 0,
                 [op |-> "to_query_stack", header |-> args.header])
    ELSE main_searched(args, options, counters, q.stack,
                       search_trace(m, q.stack))

main_callback(args, m, options, counters) ==
    IF /\ options.process_name_filter.some
       /\ ~is_match(options.process_name_filter.regex, args.process_name)
    THEN Counted(counters, FALSE, 0, 0,
                 [op |-> "filtered", header |-> args.header])
    ELSE main_rewritten(args, m, options, counters,
                        IF options.rustc_query
                        THEN to_query_stack(args.stack)
                        ELSE [panic |-> FALSE, stack |-> args.stack])

(***************************************************************************)
(* each_trace.                                                             *)
(***************************************************************************)
\* after callback(args): frames.truncate(0)
called_back(t, args, c) ==
    [t |-> [t EXCEPT !.frames = <<>>, !.calls = Append(@, args),
                     !.matches = c.matches, !.not_matches = c.not_matches],
     called |-> TRUE, panic |-> c.panic, call |-> c.call]

\* the closure trigger: hands a non-empty frames vector to the callback
\* and empties it
trigger(t, m, options) ==
    IF t.frames # <<>>
    THEN called_back(t, TraceArgs(t.frames),
                     main_callback(TraceArgs(t.frames), m, options, t))
    ELSE [t |-> t, called |-> FALSE, panic |-> FALSE, call |-> NoCall]

\* the input lines
BlankLine == <<>>

SpacesLine == <<" ">>

CommentLine == <<"#", " ", "c">>

HeaderLine == <<"a", " ", "1", ":">>

FrameLine == <<"\t", "7", " ", "a", " ", "x", " ", "(", "l", ")">>

QueryFrameLine ==
    <<"\t", "7", " ">> \o QUERY_PREFIX_1 \o <<"b", " ", "(", "l", ")">>

MangledFrameLine ==
    <<" ", "7", " ">> \o QUERY_PREFIX_2 \o <<"1", "b", "E">>

Lines ==
    {BlankLine, SpacesLine, CommentLine, HeaderLine, FrameLine,
     QueryFrameLine, MangledFrameLine}

TraceOptions ==
    [rustc_query : BOOLEAN, print_match : BOOLEAN,
     process_name_filter : {NoFilter} \cup {Filter(p) : p \in Patterns}]

InitTrace ==
    /\ matcher \in Operands
    /\ ops = 0
    /\ pc = "each_trace"
    /\ sample = <<>>
    /\ result = NoResult
    /\ hist = Histogram_new
    /\ graph = CallGraph_new
    /\ tree = Tree_new
    /\ ghost \in [stdin : SeqsUpTo(Lines, MaxLines), options : TraceOptions]
    /\ last = NoCall
    /\ each_trace = NoTraces
    /\ flat = Flat_new

\* after trigger: the header line, if any, starts the next sample; at the
\* end of the input each_trace returns
Triggered(g, pushed, then) ==
    /\ each_trace' = [g.t EXCEPT !.frames = @ \o pushed]
    /\ pc' = IF g.panic THEN "callback_panic" ELSE then
    /\ last' = IF g.called THEN g.call ELSE last

\* one turn of the loop over stdin.lines()
EachTraceLine ==
    /\ pc = "each_trace"
    /\ each_trace.next <= Len(ghost.stdin)
    /\ LET line == ghost.stdin[each_trace.next]
           t == [each_trace EXCEPT !.next = @ + 1]
       IN IF starts_with(line, <<"#">>)
          THEN each_trace' = t /\ UNCHANGED <<pc, last>>
          ELSE IF trim(line) = <<>> \/ ~starts_with_whitespace(line)
          THEN Triggered(trigger(t, matcher, ghost.options),
                         IF trim(line) = <<>> THEN <<>> ELSE <<line>>, pc)
          ELSE IF t.frames = <<>>
          THEN each_trace' = t /\ pc' = "assert_failed" /\ UNCHANGED last
          ELSE /\ each_trace' = [t EXCEPT !.frames = Append(@, line)]
               /\ UNCHANGED <<pc, last>>
    /\ UNCHANGED <<matcher, ops, sample, result, hist, graph, tree, ghost,
                   flat>>

\* the end of the input: the last trigger
EachTraceEnd ==
    /\ pc = "each_trace"
    /\ each_trace.next > Len(ghost.stdin)
    /\ Triggered(trigger(each_trace, matcher, ghost.options), <<>>,
                 "trace_done")
    /\ UNCHANGED <<matcher, ops, sample, result, hist, graph, tree, ghost,
                   flat>>

NextTrace ==
    \/ EachTraceLine
    \/ EachTraceEnd

SpecTrace == InitTrace /\ [][NextTrace]_vars

(***************************************************************************)
(* Flat of src/flat.rs: a histogram, for each leaf function the contexts   *)
(* (the callers, bottom of stack first) it was seen in with their counts,  *)
(* and the number of traces that have no frame left.  The loop of rollup   *)
(* is taken one step at a time: the collection of the leaves to remove,    *)
(* then one removal for each of them, in any order (the order of a         *)
(* HashMap's keys).                                                        *)
(***************************************************************************)
Leaf_new(callers, count) == [contexts |-> (callers :> count)]

Leaf_insert_trace(self, context, count) ==
    [self EXCEPT !.contexts = EntryAdd(@, context, count)]

Leaf_count(self) == SumOver(self.contexts, DOMAIN self.contexts)

\* variant: the top frame stays in the context
Flat_insert_whole(self, trace, count) ==
    IF trace = <<>> THEN [self EXCEPT !.empty_traces = @ + count]
    ELSE LET top == trace[Len(trace)]
         IN IF top \in DOMAIN self.leaves
            THEN [self EXCEPT
                    !.leaves[top] = Leaf_insert_trace(@, trace, count)]
            ELSE [self EXCEPT
                    !.leaves = @ @@ (top :> Leaf_new(trace, count))]

Flat_insert(self, trace, count) ==
    IF trace = <<>> THEN [self EXCEPT !.empty_traces = @ + count]
    ELSE LET top == trace[Len(trace)]
             callers == SubSeq(trace, 1, Len(trace) - 1)
         IN IF top \in DOMAIN self.leaves
            THEN [self EXCEPT
                    !.leaves[top] = Leaf_insert_trace(@, callers, count)]
            ELSE [self EXCEPT
                    !.leaves = @ @@ (top :> Leaf_new(callers, count))]

Flat_add_frames(self, frames) ==
    [Flat_insert(self, frames, 1) EXCEPT
        !.histogram = Histogram_add_frames(@, frames)]

\* Leaf::distribute: every context of the leaf goes back into the table
RECURSIVE Leaf_distribute(_, _, _)
Leaf_distribute(contexts, todo, self) ==
    IF todo = {} THEN self
    ELSE LET context == CHOOSE c \in todo : TRUE
         IN Leaf_distribute(contexts, todo \ {context},
                            Flat_insert(self, context, contexts[context]))

\* self.leaves.remove(&leaf_func).unwrap() and leaf.distribute(self)
Flat_remove(self, leaf_func) ==
    LET leaf == self.leaves[leaf_func]
        rest == [self EXCEPT
                    !.leaves = [k \in DOMAIN @ \ {leaf_func} |-> @[k]]]
    IN Leaf_distribute(leaf.contexts, DOMAIN leaf.contexts, rest)

\* min_percent as u32: the value modulo the width, IntMax standing for
\* the largest u32
as_u32(n) == IF n <= IntMax THEN n ELSE n - IntMax - 1

\* the values leaves_to_remove can take: the leaves whose percent is
\* below min_percent, for each value that percent can give
rollup_leaves_to_remove(self, total_samples, min_percent) ==
    {R \in SUBSET DOMAIN self.leaves :
        \A leaf_name \in DOMAIN self.leaves :
            LET count == Histogram_get(self.histogram, leaf_name)
                below == {v \in percent_outcomes(count, total_samples) :
                            v < as_u32(min_percent)}
                other == percent_outcomes(count, total_samples) \ below
            IN /\ leaf_name \in R => below # {}
               /\ leaf_name \notin R => other # {}}

FlatLabels == {AggLabels[1], AggLabels[2]}

\* the sequences add_frames is given
FlatInputs == SeqsUpTo(FlatLabels, MaxFlatWork - 1)

\* the min_percent values rollup is called with: nothing is below the
\* first, everything is below the last
FlatMinPercents == {0, SomePercent, 101}

\* ghost: the number of add_frames calls and the frames they were given
\* together with the calls
InitFlat ==
    /\ matcher = empty_matcher
    /\ ops = 0
    /\ pc = "flat"
    /\ sample = <<>>
    /\ result = NoResult
    /\ hist = Histogram_new
    /\ graph = CallGraph_new
    /\ tree = Tree_new
    /\ ghost = [calls |-> 0, work |-> 0]
    /\ last = NoCall
    /\ each_trace = NoTraces
    /\ flat = Flat_new

FlatAddFrames ==
    /\ pc = "flat"
    /\ \E frames \in FlatInputs :
          /\ ghost.work + Len(frames) + 1 <= MaxFlatWork
          /\ flat' = Flat_add_frames(flat, frames)
          /\ ghost' = [calls |-> ghost.calls + 1,
                       work |-> ghost.work + Len(frames) + 1]
          /\ last' = [op |-> "add_frames", frames |-> frames, before |-> flat]
    /\ UNCHANGED <<matcher, ops, pc, sample, result, hist, graph, tree,
                   each_trace>>

\* the call of rollup: total_samples is no sample at all, the number of
\* traces added, or twice that (as many samples again did not match)
FlatRollup ==
    /\ pc = "flat"
    /\ \E total_samples \in {0, ghost.calls, 2 * ghost.calls},
          min_percent \in FlatMinPercents :
          last' = [op |-> "rollup", total_samples |-> total_samples,
                   min_percent |-> min_percent, leaves_to_remove |-> {},
                   removed |-> 0, before |-> flat]
    /\ pc' = "rollup_loop"
    /\ UNCHANGED <<matcher, ops, sample, result, hist, graph, tree, ghost,
                   each_trace, flat>>

\* the head of the loop: leaves_to_remove is collected, and rollup returns
\* when it is empty
FlatRollupCollect ==
    /\ pc = "rollup_loop"
    /\ \E leaves_to_remove \in
            rollup_leaves_to_remove(flat, last.total_samples,
                                    last.min_percent) :
          /\ last' = [last EXCEPT !.leaves_to_remove = leaves_to_remove]
          /\ pc' = IF leaves_to_remove = {} THEN "rollup_done"
                   ELSE "rollup_remove"
    /\ UNCHANGED <<matcher, ops, sample, result, hist, graph, tree, ghost,
                   each_trace, flat>>

\* one turn of the for loop
FlatRollupRemove ==
    /\ pc = "rollup_remove"
    /\ \E leaf_func \in last.leaves_to_remove :
          /\ flat' = Flat_remove(flat, leaf_func)
          /\ last' = [last EXCEPT !.leaves_to_remove = @ \ {leaf_func},
                                  !.removed = @ + 1]
          /\ pc' = IF last.leaves_to_remove = {leaf_func} THEN "rollup_loop"
                   ELSE "rollup_remove"
    /\ UNCHANGED <<matcher, ops, sample, result, hist, graph, tree, ghost,
                   each_trace>>

NextFlat ==
    \/ FlatAddFrames
    \/ FlatRollup
    \/ FlatRollupCollect
    \/ FlatRollupRemove

SpecFlat == InitFlat /\ [][NextFlat]_vars

\* rollup is sequential code: once called it runs on until it returns
SpecFlatFair ==
    SpecFlat /\ WF_vars(FlatRollupCollect) /\ WF_vars(FlatRollupRemove)

(***************************************************************************)
(* Properties.                                                             *)
(***************************************************************************)
Searched == pc = "search_trace"

Matched == pc = "match_trace"

IsSuffixOf(t, s) == \E n \in 0..Len(s) : t = DropFrames(s, n)

InRange(r, s) ==
    /\ 0 <= r.first_matching_frame
    /\ r.first_matching_frame <= r.first_callee_frame
    /\ r.first_callee_frame <= Len(s)

Min(S) == CHOOSE n \in S : \A m \in S : n <= m

\* the 0-based positions of s at which match_trace of m fails / succeeds
FailsAt(m, s) ==
    {k \in 0..(Len(s) - 1) : is_err(match_trace(m, DropFrames(s, k)))}

\* a one-frame atom ({regex} or .) matches the frame f
FrameMatches(atom, f) ==
    IF atom.tag = "Regex" THEN is_match(atom.text, f) ELSE atom.tag = "Wildcard"

\* the 0-based indices of the frames of s that the one-frame atom matches
FramesMatching(atom, s) == {i \in 0..(Len(s) - 1) : FrameMatches(atom, s[i + 1])}

\* C1: for every matcher and stack, a search (with the Empty condition of
\* search_trace, or with the condition of a Skip) that returns Some has
\* 0 <= first_matching_frame <= first_callee_frame <= |s|, and every
\* successful match_trace returns a suffix of its input.
C1_SearchResultInRange ==
    /\ (Searched /\ result.found) => InRange(result, sample)
    /\ (Matched /\ result.kind = "Ok") => IsSuffixOf(result.suffix, sample)
    /\ (Matched /\ matcher.tag = "Skip") =>
          LET r == search_trace_while(matcher.needle, sample, matcher.condition)
          IN  r.found => InRange(r, sample)

C1_Witness ==
    /\ Searched
    /\ result.found
    /\ 0 < result.first_matching_frame
    /\ result.first_matching_frame < result.first_callee_frame
    /\ result.first_callee_frame < Len(sample)

IsThenNot(m) ==
    \E a \in Patterns : \E b \in Patterns \ {a} :
        m = MATCHER_THEN_NOT_MATCHER(MATCHER_RE(a), MATCHER_RE(b))

\* C3: for the query a..!b, search_trace(s) is Some exactly when some frame
\* matches a and no frame above the bottom-most frame matching a matches b;
\* when that frame has a b above it the search returns None instead of
\* sliding on to a later frame matching a.
C3_ThenNotCutsAtBottomMostA ==
    (Searched /\ IsThenNot(matcher)) =>
        LET a == matcher.left
            b == matcher.right.matcher.needle
            A == FramesMatching(a, sample)
        IN  result.found <=>
                /\ A # {}
                /\ \A j \in FramesMatching(b, sample) : j <= Min(A)

\* C4: Or(l, r).match_trace(s) returns l's suffix when l succeeds, evaluates
\* r on the same s only when l fails with RecoverableError, and returns
\* IrrecoverableError without evaluating r when l fails with
\* IrrecoverableError.
C4_OrPropagatesTheCut ==
    (Matched /\ matcher.tag = "Or") =>
        LET l == match_trace(matcher.left, sample)
            r == match_trace(matcher.right, sample)
            self == Call(matcher, sample)
        IN  CASE l.kind = "Ok" ->
                    result = Ok(l.suffix, self \o l.evals)
              [] l.kind = RecoverableError ->
                    result = [r EXCEPT !.evals = self \o l.evals \o @]
              [] l.kind = IrrecoverableError ->
                    result = Err(IrrecoverableError, self \o l.evals)

\* C5: Then(l, r).match_trace(s): if l fails the result is a failure of l's
\* kind and r is not evaluated; otherwise r is evaluated on l's suffix and
\* the result (suffix, or failure of r's kind) is r's.
C5_ThenPropagatesFailureKind ==
    (Matched /\ matcher.tag = "Then") =>
        LET l == match_trace(matcher.left, sample)
            self == Call(matcher, sample)
        IN  IF is_err(l)
            THEN result = Err(l.kind, self \o l.evals)
            ELSE LET r == match_trace(matcher.right, l.suffix)
                 IN  /\ result.kind = r.kind
                     /\ result.suffix = r.suffix
                     /\ result.evals = self \o l.evals \o r.evals

C5_Witness ==
    /\ Matched
    /\ matcher.tag = "Then"
    /\ match_trace(matcher.left, sample).kind = "Ok"
    /\ match_trace(matcher.left, sample).suffix # sample
    /\ result.kind = IrrecoverableError

\* the query !X..Y of two one-frame atoms
IsNotThen(m) ==
    \E X \in FrameAtoms, Y \in FrameAtoms :
        m = MATCHER_NOT_THEN_MATCHER(X, Y)

\* the frame of s at which !X..Y finds Y: the least index matching Y, when no
\* frame below it matches X; -1 when there is none
NotThenHit(X, Y, s) ==
    LET J == FramesMatching(Y, s)
    IN  IF J # {} /\ \A i \in FramesMatching(X, s) : i >= Min(J)
        THEN Min(J) ELSE -1

\* C6: for the query !X..Y, match_trace(s) succeeds iff there is a least
\* index j with Y matching s[j] and no frame s[i], i < j, matching X, and
\* then returns s[j+1..]; otherwise it fails with IrrecoverableError and the
\* enclosing search_trace returns None.
C6_NotThenStopsAtX ==
    IsNotThen(matcher) =>
        LET j == NotThenHit(matcher.condition.matcher, matcher.needle, sample)
        IN  /\ Matched =>
                 IF j >= 0
                 THEN result.kind = "Ok" /\ result.suffix = DropFrames(sample, j + 1)
                 ELSE result.kind = IrrecoverableError
            /\ (Searched /\ j < 0) => ~result.found

C6_Witness ==
    /\ IsNotThen(matcher)
    /\ Matched
    /\ result.kind = "Ok"
    /\ Len(sample) - Len(result.suffix) >= 3
    /\ FramesMatching(matcher.condition.matcher, sample) # {}

\* the query lhs..rhs of two regular expressions
IsRegexSkipRegex(m) ==
    \E p \in Patterns, q \in Patterns :
        m = MATCHER_SKIP_MATCHER(MATCHER_RE(p), MATCHER_RE(q))

\* C7: for the query {a}..{c}, search_trace(s) is Some iff some frame
\* matching a has a frame matching c strictly above it; then
\* first_matching_frame is the least index i matching a and
\* first_callee_frame is j + 1 for the least index j > i matching c.
C7_SkipFindsFirstCAboveFirstA ==
    (Searched /\ IsRegexSkipRegex(matcher)) =>
        LET A == FramesMatching(matcher.left, sample)
            C == FramesMatching(matcher.right.needle, sample)
        IN  /\ result.found <=> \E i \in A, j \in C : i < j
            /\ result.found =>
                  /\ result.first_matching_frame = Min(A)
                  /\ result.first_callee_frame =
                        Min({j \in C : j > Min(A)}) + 1

C7_Witness ==
    /\ Searched
    /\ IsRegexSkipRegex(matcher)
    /\ result.found
    /\ result.first_matching_frame >= 1
    /\ result.first_callee_frame - result.first_matching_frame >= 3

\* the query {p},{q} of two regular expressions
IsRegexThenRegex(m) ==
    \E p \in Patterns, q \in Patterns :
        m = MATCHER_COMMA_MATCHER(MATCHER_RE(p), MATCHER_RE(q))

\* the indices i at which p matches s[i] and q matches s[i+1]
AdjacentPairs(p, q, s) ==
    {i \in FramesMatching(p, s) : i + 1 \in FramesMatching(q, s)}

\* C8: for the query {p},{q}, search_trace(s) returns Some{i, i+2} for the
\* least i such that p matches s[i] and q matches s[i+1], and None when no
\* two adjacent frames match p then q.
C8_ThenMatchesAdjacentFrames ==
    (Searched /\ IsRegexThenRegex(matcher)) =>
        LET P == AdjacentPairs(matcher.left, matcher.right, sample)
        IN  /\ result.found <=> P # {}
            /\ result.found =>
                  /\ result.first_matching_frame = Min(P)
                  /\ result.first_callee_frame = Min(P) + 2

C8_Witness ==
    /\ Searched
    /\ IsRegexThenRegex(matcher)
    /\ result.found
    /\ \E i \in FramesMatching(matcher.left, sample) :
          i + 1 < result.first_matching_frame

\* C9: whenever search_trace(s) returns Some with first_matching_frame = k,
\* match_trace succeeded on s[k..] and failed recoverably on s[i..] for every
\* i < k, and s[first_callee_frame..] is the suffix that match returned; for
\* a single Regex p the result is Some{i, i+1} for the least i whose frame
\* matches p, and None when there is none.
C9_FirstSuccessfulPositionWins ==
    Searched =>
        /\ result.found =>
              LET k == result.first_matching_frame
                  r == match_trace(matcher, DropFrames(sample, k))
              IN  /\ r.kind = "Ok"
                  /\ r.suffix = DropFrames(sample, result.first_callee_frame)
                  /\ \A i \in 0..(k - 1) :
                        match_trace(matcher, DropFrames(sample, i)).kind
                            = RecoverableError
        /\ matcher.tag = "Regex" =>
              LET P == FramesMatching(matcher, sample)
              IN  /\ result.found <=> P # {}
                  /\ result.found =>
                        /\ result.first_matching_frame = Min(P)
                        /\ result.first_callee_frame = Min(P) + 1

C9_Witness ==
    /\ Searched
    /\ matcher.tag \notin {"Regex", "Wildcard", "Empty"}
    /\ result.found
    /\ result.first_matching_frame >= 2
    /\ result.first_callee_frame > result.first_matching_frame

\* C10: for the Empty matcher, search_trace on any non-empty sample returns
\* SearchResult{first_matching_frame: 0, first_callee_frame: 0}.
C10_EmptyMatcherMatchesAtZero ==
    (Searched /\ matcher = empty_matcher /\ sample # <<>>) =>
        /\ result.found
        /\ result.first_matching_frame = 0
        /\ result.first_callee_frame = 0

C10_Witness ==
    /\ Searched
    /\ matcher = empty_matcher
    /\ Len(sample) >= 2
    /\ result.found

SumCounts(map) == SumOver(map, DOMAIN map)

\* C11: after any sequence of Histogram::add_frames calls the count of every
\* frame is the number of calls whose sequence contained it (a frame repeated
\* in one sample adds 1); so every recorded count is between 1 and the number
\* of calls, and one call raises the sum of all counts by its number of
\* distinct frames.
C11_HistogramCountsSamples ==
    pc = "hist" =>
        /\ \A l \in LabelSet : Histogram_get(hist, l) = ghost.seen[l]
        /\ \A l \in DOMAIN hist.fns :
              hist.fns[l] >= 1 /\ hist.fns[l] <= ghost.calls
        /\ last.op = "add_frames" =>
              SumCounts(hist.fns) =
                  SumCounts(last.before.fns) + Cardinality(Range(last.frames))

C11_Witness ==
    /\ pc = "hist"
    /\ last.op = "add_frames"
    /\ \E i \in 1..Len(last.frames) : \E j \in (i + 2)..Len(last.frames) :
          /\ last.frames[i] = last.frames[j]
          /\ last.frames[i + 1] # last.frames[i]
          /\ Histogram_get(hist, last.frames[i]) = 2
          /\ ghost.calls > 2

(***************************************************************************)
(* Call graph.                                                             *)
(***************************************************************************)
\* the nodes left in the buffer (every node is in some sample)
Survivors == Range(graph.frames) \ {MARKER}

AllNodeIds == {i - 1 : i \in 1..Len(graph.node_counts)}

node_count(n) == graph.node_counts[n + 1]

\* C12: after set_total(total, top_n) the surviving nodes are exactly the
\* top_n nodes with the largest node_count (no pruned node has a node_count
\* strictly greater than a surviving node's), and both endpoints of every
\* recorded edge are surviving nodes.
C12_SurvivorsAreTopByNodeCount ==
    pc = "graph_done" =>
        /\ Cardinality(Survivors) = Min({last.threshold, Cardinality(AllNodeIds)})
        /\ \A p \in AllNodeIds \ Survivors : \A s \in Survivors :
              node_count(p) <= node_count(s)
        /\ \A e \in DOMAIN graph.edges :
              e.caller \in Survivors /\ e.callee \in Survivors

\* C13: in every state of the call graph, after add_frames calls (also with
\* an empty sequence) and after set_total has pruned the buffer, the frames
\* buffer never starts with MARKER and never has two adjacent MARKERs.
C13_NoEmptySampleInBuffer ==
    pc \in {"graph", "graph_done"} =>
        /\ graph.frames # <<>> => graph.frames[1] # MARKER
        /\ \A i \in 1..(Len(graph.frames) - 1) :
              ~(graph.frames[i] = MARKER /\ graph.frames[i + 1] = MARKER)

\* the k-th added sample as node ids, without the pruned nodes
PrunedSample(k) ==
    LET s == ghost.samples[k]
        ids == [i \in 1..Len(s) |-> graph.nodes[s[i]]]
        Survives(n) == n \in Survivors
    IN  SelectSeq(ids, Survives)

Follows(u, v, p) == \E i \in 1..(Len(p) - 1) : p[i] = u /\ p[i + 1] = v

SamplesWhere(u, v) ==
    {k \in 1..Len(ghost.samples) : Follows(u, v, PrunedSample(k))}

\* C14: after add_frames calls and one set_total, for every pair (u, v) of
\* surviving nodes edge_count(u, v) is the number of added samples in whose
\* pruned form v immediately follows u at least once; no edge is formed
\* across a MARKER; every edge_count is at most the number of non-empty
\* samples added.
C14_EdgeCountIsSamplesWithAdjacency ==
    pc = "graph_done" =>
        /\ \A u \in Survivors : \A v \in Survivors :
              GetOr0(graph.edges, Edge(u, v)) = Cardinality(SamplesWhere(u, v))
        /\ \A e \in DOMAIN graph.edges :
              /\ e.caller \in Survivors /\ e.callee \in Survivors
              /\ graph.edges[e] <=
                    Cardinality({k \in 1..Len(ghost.samples) :
                                    ghost.samples[k] # <<>>})

\* a sample of three nodes whose middle node is pruned, so that its two
\* other nodes become an edge, followed by a sample of one surviving node,
\* to which no edge leads from the last node of the sample before
C14_Witness ==
    /\ pc = "graph_done"
    /\ Len(ghost.samples) = 2
    /\ Len(ghost.samples[1]) = 3
    /\ graph.nodes[ghost.samples[1][2]] \notin Survivors
    /\ Len(PrunedSample(1)) = 2
    /\ Len(PrunedSample(2)) = 1
    /\ GetOr0(graph.edges, Edge(PrunedSample(1)[1], PrunedSample(1)[2])) = 1
    /\ Edge(PrunedSample(1)[2], PrunedSample(2)[1]) \notin DOMAIN graph.edges

(***************************************************************************)
(* Prefix tree.  A node is named by the positions of the children that     *)
(* lead to it from the root.                                               *)
(***************************************************************************)
RECURSIVE NodePaths(_)
NodePaths(n) ==
    {<<>>} \cup UNION {{<<i>> \o p : p \in NodePaths(n.children[i])} :
                          i \in 1..Len(n.children)}

RECURSIVE NodeAt(_, _)
NodeAt(n, p) == IF p = <<>> THEN n ELSE NodeAt(n.children[Head(p)], Tail(p))

RECURSIVE LabelPath(_, _)
LabelPath(n, p) ==
    IF p = <<>> THEN <<>>
    ELSE <<n.children[Head(p)].label>> \o LabelPath(n.children[Head(p)], Tail(p))

AllNodes(root) == {NodeAt(root, p) : p \in NodePaths(root)}

ChildrenTotal(n) ==
    SumOver([i \in 1..Len(n.children) |-> n.children[i].hits_total],
            1..Len(n.children))

SumIdentity(n) ==
    n.hits_total >= n.hits_self /\ n.hits_total = n.hits_self + ChildrenTotal(n)

DistinctLabels(n) ==
    \A i \in 1..Len(n.children) : \A j \in 1..Len(n.children) :
        n.children[i].label = n.children[j].label => i = j

\* C15: after any sequence of Tree::add_frames calls every node has children
\* with pairwise distinct labels, hits_total >= hits_self and hits_total =
\* hits_self + the sum of its children's hits_total; the root's hits_total
\* is the number of calls; the hits_self of a node is the number of inserted
\* sequences that are exactly the path from the root to the node.
C15_AddFramesInvariants ==
    (pc \in {"tree", "tree_leaves"} /\ ghost.built) =>
        /\ \A n \in AllNodes(tree.root_node) : DistinctLabels(n) /\ SumIdentity(n)
        /\ tree.root_node.hits_total = ghost.calls
        /\ \A p \in NodePaths(tree.root_node) :
              NodeAt(tree.root_node, p).hits_self =
                 Cardinality({k \in 1..Len(ghost.samples) :
                                 ghost.samples[k] = LabelPath(tree.root_node, p)})

\* a node below the root where a sequence ended and another went on
C15_Witness ==
    /\ pc = "tree" /\ ghost.built /\ last.op = "add_frames"
    /\ \E p \in NodePaths(tree.root_node) :
          /\ p # <<>>
          /\ NodeAt(tree.root_node, p).hits_self >= 1
          /\ NodeAt(tree.root_node, p).children # <<>>

\* rollup has just been applied to a tree built by add_frames
RolledUp == pc = "tree" /\ last.op = "rollup" /\ last.built

\* depth 0 is a child of the root
Depth(p) == Len(p) - 1

\* C16: after Tree::rollup(total, max_depth, min_percent) on a tree built by
\* add_frames no surviving node other than the root, the root's children
\* included, has percent(hits_total, total) < min_percent, and no surviving
\* node lies at a depth > max_depth.
C16_RollupLeavesNoSmallOrDeepNode ==
    RolledUp =>
        \A p \in NodePaths(tree.root_node) \ {<<>>} :
            /\ percent(NodeAt(tree.root_node, p).hits_total, last.total_samples)
                  >= last.min_percent
            /\ Depth(p) <= last.max_depth

LabelPaths(root) == {LabelPath(root, p) : p \in NodePaths(root)}

\* the node reached from n by the labels q (sibling labels are distinct)
RECURSIVE NodeLabelled(_, _)
NodeLabelled(n, q) ==
    IF q = <<>> THEN n
    ELSE LET i == CHOOSE j \in 1..Len(n.children) : n.children[j].label = Head(q)
         IN  NodeLabelled(n.children[i], Tail(q))

ChildLabels(n) == {n.children[i].label : i \in 1..Len(n.children)}

\* the hits_total of the children of b that a has no more
CollapsedHits(b, a) ==
    SumOver([i \in 1..Len(b.children) |-> b.children[i].hits_total],
            {i \in 1..Len(b.children) : b.children[i].label \notin ChildLabels(a)})

\* C17: Tree::rollup preserves the counting invariants: every node still has
\* hits_total = hits_self + the sum of its children's hits_total, the root's
\* hits_total is still the number of inserted samples, and the hits_total of
\* each collapsed node was added to the hits_self of its parent, from whose
\* children the node is gone.
C17_RollupPreservesCounts ==
    RolledUp =>
        /\ \A n \in AllNodes(tree.root_node) : SumIdentity(n)
        /\ tree.root_node.hits_total = ghost.calls
        /\ LabelPaths(tree.root_node) \subseteq LabelPaths(last.before.root_node)
        /\ \A q \in LabelPaths(tree.root_node) :
              LET a == NodeLabelled(tree.root_node, q)
                  b == NodeLabelled(last.before.root_node, q)
              IN  /\ a.hits_total = b.hits_total
                  /\ a.hits_self = b.hits_self + CollapsedHits(b, a)

\* a node has lost a child and has its hits
C17_Witness ==
    /\ RolledUp
    /\ \E q \in LabelPaths(tree.root_node) :
          LET a == NodeLabelled(tree.root_node, q)
              b == NodeLabelled(last.before.root_node, q)
          IN  Len(a.children) < Len(b.children) /\ a.hits_self > b.hits_self

TreeDepth(root) == CHOOSE d \in {Depth(p) : p \in NodePaths(root)} :
                      \A p \in NodePaths(root) : Depth(p) <= d

\* rollup has just been applied with parameters that prune nothing
RolledUpNothing ==
    /\ RolledUp
    /\ last.min_percent = 0
    /\ last.max_depth >= TreeDepth(last.before.root_node)

\* C18: Tree::rollup with parameters that prune nothing (min_percent = 0 and
\* max_depth at least the tree's depth) is a no-op: the tree after the call,
\* with every counter and the order of every child list, is the tree before
\* the call, whether or not sort was applied first.
C18_NonPruningRollupIsNoOp == RolledUpNothing => tree = last.before

IsSorted(n) ==
    \A i \in 1..(Len(n.children) - 1) :
        n.children[i].hits_total >= n.children[i + 1].hits_total

Position(n, l) == CHOOSE i \in 1..Len(n.children) : n.children[i].label = l

\* among the children of a that have the same hits_total, the order is
\* their order in b
SameOrderWhenEqual(b, a) ==
    \A i \in 1..Len(b.children) : \A j \in (i + 1)..Len(b.children) :
        b.children[i].hits_total = b.children[j].hits_total =>
            Position(a, b.children[i].label) < Position(a, b.children[j].label)

\* C18, amended: with parameters that prune nothing rollup keeps every node
\* and every counter and sorts every child list by decreasing hits_total,
\* children with equal hits_total staying in their order; on a tree whose
\* child lists are so sorted already it is a no-op.
C18_NonPruningRollupOnlySorts ==
    RolledUpNothing =>
        /\ LabelPaths(tree.root_node) = LabelPaths(last.before.root_node)
        /\ \A q \in LabelPaths(tree.root_node) :
              LET a == NodeLabelled(tree.root_node, q)
                  b == NodeLabelled(last.before.root_node, q)
              IN  /\ a.label = b.label
                  /\ a.hits_total = b.hits_total
                  /\ a.hits_self = b.hits_self
                  /\ IsSorted(a)
                  /\ SameOrderWhenEqual(b, a)
        /\ (\A b \in AllNodes(last.before.root_node) : IsSorted(b))
              => tree = last.before

\* the call changed the order of a child list
C18_Witness ==
    /\ RolledUpNothing
    /\ tree # last.before
    /\ \E b \in AllNodes(last.before.root_node) : ~IsSorted(b)

LeafPaths(root) == {p \in NodePaths(root) : NodeAt(root, p).children = <<>>}

\* p comes before q from left to right (neither is a prefix of the other)
Before(p, q) ==
    \E k \in 1..Len(p) :
        /\ k <= Len(q)
        /\ p[k] < q[k]
        /\ \A j \in 1..(k - 1) : p[j] = q[j]

Rank(root, p) == 1 + Cardinality({q \in LeafPaths(root) : Before(q, p)})

\* C19: in every tree reachable by add_frames, sort, rollup and only_leaves
\* every node without children has hits_total = hits_self, so the assertion
\* in for_each_leaf never fails; for_each_leaf calls f exactly once for each
\* node without children, with its label and hits_total, and never for a
\* node that has children.
C19_LeavesHaveOnlySelfHits ==
    /\ pc # "tree_panic"
    /\ pc \in {"tree", "tree_leaves"} =>
          \A n \in AllNodes(tree.root_node) :
              n.children = <<>> => n.hits_total = n.hits_self
    /\ pc = "tree_leaves" =>
          /\ Len(last.calls) = Cardinality(LeafPaths(tree.root_node))
          /\ \A p \in LeafPaths(tree.root_node) :
                last.calls[Rank(tree.root_node, p)] =
                   [label |-> NodeAt(tree.root_node, p).label,
                    hits |-> NodeAt(tree.root_node, p).hits_total]

\* for_each_leaf on a tree that rollup or only_leaves was applied to, with
\* a node that has children and hits of its own
C19_Witness ==
    /\ pc = "tree_leaves"
    /\ ~ghost.built
    /\ Len(last.calls) >= 1
    /\ \E n \in AllNodes(tree.root_node) :
          n.children # <<>> /\ n.hits_self > 0 /\ n.label # "<root>"

(***************************************************************************)
(* The driver.                                                             *)
(***************************************************************************)
Handed == pc = "add_frames" /\ last.op = "add_frames"

\* C20: for a matched sample with frames f (bottom first) and result r the
\* sequence handed to the aggregator is: in All mode f in order; in Caller
\* mode the marker frame, then f[r.first_matching_frame - 1], ..., f[0]; in
\* Callee mode the marker frame, then f[r.first_callee_frame], ...,
\* f[|f| - 1]; no frame of the matched region is handed over in Caller or
\* Callee mode.  Each frame is handed over as rename_frame returns it,
\* which is the frame itself when no --rename option was given.
C20_HandedFramesPerMode ==
    Handed =>
        LET f == sample
            h == last.frames
            fmf == result.first_matching_frame
            fcf == result.first_callee_frame
            IsFrame(x, i) ==
                /\ x = rename_frame(last.options, f[i + 1])
                /\ last.options.rename = <<>> => x = f[i + 1]
        IN  /\ last.mode = "All" =>
                  /\ Len(h) = Len(f)
                  /\ \A k \in 1..Len(f) : IsFrame(h[k], k - 1)
            /\ last.mode = "Caller" =>
                  /\ Len(h) = 1 + fmf
                  /\ h[1] = matched(matcher)
                  /\ \A k \in 1..fmf : IsFrame(h[1 + k], fmf - k)
            /\ last.mode = "Callee" =>
                  /\ Len(h) = 1 + Len(f) - fcf
                  /\ h[1] = matched(matcher)
                  /\ \A k \in 1..(Len(f) - fcf) : IsFrame(h[1 + k], fcf + k - 1)

\* Caller mode with two different frames below a match that has frames
\* above it
C20_Witness ==
    /\ Handed
    /\ last.mode = "Caller"
    /\ last.options.rename = <<>>
    /\ result.first_matching_frame = 2
    /\ result.first_callee_frame > result.first_matching_frame
    /\ result.first_callee_frame < Len(sample)
    /\ sample[1] # sample[2]
    /\ last.frames[2] = sample[2] /\ last.frames[3] = sample[1]

\* C26: in every state of the call graph the frames buffer is empty or ends
\* with MARKER, so the read of self.frames[i+1] in set_total, made for every
\* entry at i that is not MARKER, is within bounds, for every top_n, 0
\* included, and for set_total on a graph with no samples.
C26_BufferEndsWithMarker ==
    pc \in {"graph", "graph_done", "graph_panic"} =>
        /\ pc # "graph_panic"
        /\ graph.frames # <<>> => graph.frames[Len(graph.frames)] = MARKER
        /\ \A i \in 1..Len(graph.frames) :
              graph.frames[i] # MARKER => i + 1 <= Len(graph.frames)

\* set_total with top_n = 0 on a graph with samples
C26_Witness ==
    /\ pc = "graph_done"
    /\ last.threshold = 0
    /\ Len(ghost.samples) >= 2
    /\ last.before.frames # graph.frames
    /\ graph.frames # <<>>

(***************************************************************************)
(* The search on an empty stack.                                           *)
(***************************************************************************)
IsThenSkip == matcher.tag = "Then" /\ matcher.right.tag = "Skip"

\* the positions of s at which m matches
OkAt(m, s) ==
    {k \in 0..(Len(s) - 1) : match_trace(m, DropFrames(s, k)).kind = "Ok"}

\* m matches somewhere, and where it first does it consumes all the rest
ConsumesAll(m, s) ==
    /\ OkAt(m, s) # {}
    /\ match_trace(m, DropFrames(s, Min(OkAt(m, s)))).suffix = <<>>

\* C27: search_trace_while on an empty stack returns None for every
\* matcher, Empty and Not(m) included; hence Skip(needle, cond).match_trace
\* on an empty remainder fails with IrrecoverableError whatever the needle,
\* and a Then(l, Skip(n)) whose l consumes the whole stack makes the
\* enclosing search return None.
C27_EmptyStackIsNeverFound ==
    /\ (Searched /\ sample = <<>>) => ~result.found
    /\ pc \in {"build", "match_trace", "search_trace"} =>
          /\ ~search_trace_while(matcher, <<>>, empty_matcher).found
          /\ \A c \in Operands : ~search_trace_while(matcher, <<>>, c).found
          /\ \A c \in Atoms :
                match_trace(SkipMatcher_with_condition(matcher, c), <<>>).kind
                   = IrrecoverableError
    /\ (Matched /\ matcher.tag = "Skip" /\ sample = <<>>) =>
          result.kind = IrrecoverableError
    /\ (Searched /\ IsThenSkip /\ ConsumesAll(matcher.left, sample)) =>
          ~result.found

\* the search slid to the last frame, where l matched and the Skip was
\* left with nothing
C27_Witness ==
    /\ Searched
    /\ IsThenSkip
    /\ Len(sample) >= 2
    /\ ConsumesAll(matcher.left, sample)
    /\ Min(OkAt(matcher.left, sample)) = Len(sample) - 1
    /\ matcher.right.needle.tag \in {"Empty", "Wildcard"}
    /\ ~result.found

\* C24: percent(num, denom) is floor(100 * num / denom) for every
\* denom > 0 (truncated, never rounded up), and 0 whenever denom = 0, for
\* every num, num > 0 included.
C24_PercentIsFloorOrZero ==
    pc = "percent_done" =>
        /\ ghost.denom > 0 =>
              /\ last.value * ghost.denom <= 100 * ghost.num
              /\ 100 * ghost.num < (last.value + 1) * ghost.denom
        /\ ghost.denom = 0 => last.value = 0

(***************************************************************************)
(* The query parser.                                                       *)
(***************************************************************************)
\* the places where text divides into an atom, a '/' and a matcher
OrSplits(text) ==
    {i \in 1..Len(text) :
        /\ text[i] = "/"
        /\ LET l == Parse_MATCHER0(SubSeq(text, 1, i - 1), 0)
           IN  l.ok /\ l.offset = i - 1
        /\ parse_matcher(SubSeq(text, i + 1, Len(text))).ok}

\* C25: parse_matcher accepts every query of the form atom '/' matcher and
\* returns an Or(l, r) matcher for it.
C25_OrQueryParses ==
    (pc \in {"parsed", "parse_error"} /\ OrSplits(ghost.text) # {}) =>
        /\ pc = "parsed"
        /\ \E i \in OrSplits(ghost.text) :
              matcher =
                 OrMatcher(Parse_MATCHER0(SubSeq(ghost.text, 1, i - 1), 0).m,
                           parse_matcher(SubSeq(ghost.text, i + 1,
                                                Len(ghost.text))).m)

\* the kinds of input line, as the text of a perf script file: a comment
\* starts with "#", a blank line holds nothing but whitespace, a header
\* line starts at the left margin and a frame line is indented
IsCommentLine(l) == l # <<>> /\ l[1] = "#"

IsBlankLine(l) == \A i \in 1..Len(l) : l[i] \in {" ", "\t"}

IsHeaderLine(l) ==
    ~IsCommentLine(l) /\ ~IsBlankLine(l) /\ l[1] \notin {" ", "\t"}

IsFrameLine(l) ==
    ~IsCommentLine(l) /\ ~IsBlankLine(l) /\ l[1] \in {" ", "\t"}

HeaderIndices(lines) == {h \in 1..Len(lines) : IsHeaderLine(lines[h])}

\* where the sample that starts at line h ends: the next blank line or
\* header line, or the end of the input
SampleEnd(lines, h) ==
    Min({k \in (h + 1)..Len(lines) :
            IsBlankLine(lines[k]) \/ IsHeaderLine(lines[k])}
        \cup {Len(lines) + 1})

\* the lines of the sample that starts at line h: the header line and its
\* frame lines, in input order
SampleLines(lines, h) ==
    <<lines[h]>>
        \o SelectSeq(SubSeq(lines, h + 1, SampleEnd(lines, h) - 1),
                     IsFrameLine)

\* the i-th header line of the input
NthHeader(lines, i) ==
    CHOOSE h \in HeaderIndices(lines) :
        Cardinality({g \in HeaderIndices(lines) : g <= h}) = i

\* the calls of the callback are the samples of the input, one call for
\* each in input order, each stack the frame lines in reverse
DeliversSamples(lines, calls) ==
    /\ Len(calls) = Cardinality(HeaderIndices(lines))
    /\ \A i \in 1..Len(calls) :
          LET s == SampleLines(lines, NthHeader(lines, i))
          IN /\ calls[i].header = s
             /\ Len(calls[i].stack) = Len(s) - 1
             /\ \A j \in 1..(Len(s) - 1) :
                   calls[i].stack[j] = fn_name(s[Len(s) + 1 - j])

\* C21: a sample with zero frames (a header line followed by no frame
\* line) is dropped by each_trace: the callback is never called with an
\* empty stack, so that matches and not_matches together count at most the
\* samples that have a frame line.
C21_ZeroFrameSampleIsDropped ==
    pc \in {"each_trace", "trace_done"} =>
        /\ \A i \in 1..Len(each_trace.calls) :
              each_trace.calls[i].stack # <<>>
        /\ each_trace.matches + each_trace.not_matches
              <= Cardinality({h \in HeaderIndices(ghost.stdin) :
                                Len(SampleLines(ghost.stdin, h)) > 1})

\* C22: each_trace never aborts, whatever the lines of its input are; an
\* indented line that arrives when no sample is open included.
C22_EachTraceNeverAborts ==
    pc # "assert_failed"

C28_SelectionWithinHeader ==
    (last.op = "match" /\ last.printed) =>
        /\ 1 <= last.selection_start
        /\ last.selection_start <= last.selection_end
        /\ last.selection_end <= Len(last.header)

\* how often the table holds the trace tr: as a context of its last frame,
\* or among the empty traces
TraceCount(self, tr) ==
    IF tr = <<>> THEN self.empty_traces
    ELSE LET top == tr[Len(tr)]
             callers == SubSeq(tr, 1, Len(tr) - 1)
         IN IF top \in DOMAIN self.leaves
                /\ callers \in DOMAIN self.leaves[top].contexts
            THEN self.leaves[top].contexts[callers]
            ELSE 0

FlatTraces == SeqsUpTo(FlatLabels, MaxFlatWork - 1)

\* all the frames the table holds
FramesHeld(self) ==
    SumOver([l \in DOMAIN self.leaves |->
                SumOver([c \in DOMAIN self.leaves[l].contexts |->
                            (Len(c) + 1) * self.leaves[l].contexts[c]],
                        DOMAIN self.leaves[l].contexts)],
            DOMAIN self.leaves)

LeafCounts(self) ==
    SumOver([l \in DOMAIN self.leaves |-> Leaf_count(self.leaves[l])],
            DOMAIN self.leaves)

InRollup == pc \in {"rollup_loop", "rollup_remove", "rollup_done"}

====
